---------------------------- MODULE Spec2Model ----------------------------
(***************************************************************************)
(* Log-record codec of the certificate-transparency log                    *)
(* (src/merkletree/LogRecord.cc): DigitallySigned, LogSegmentCheckpoint,   *)
(* LogHeadCheckpoint, SegmentData and AuditProof, over the primitive       *)
(* SerializeUint / DeserializeUint.                                        *)
(*                                                                         *)
(* A std::string is a sequence of bytes 0..255 (the bit pattern of each    *)
(* char).  A size_t is a 64-bit word, kept as its 8 bytes, least           *)
(* significant first, so that shifts, wrap-around and the conversion of a  *)
(* plain char to size_t are computed exactly as the machine computes them. *)
(* Whether plain char is signed is fixed by the build; both builds are     *)
(* modelled (char_signed).                                                 *)
(***************************************************************************)
EXTENDS Integers, Sequences, FiniteSets, TLC

VARIABLES
    char_signed,  \* the build: TRUE when plain char is a signed type
    ndebug,       \* the build: TRUE when NDEBUG is defined (assert does nothing)
    pc,           \* "idle" | "enc" (buf holds an encoding) | "done" (decoded),
                  \* "out" | "out2" (an encoder returned) | "aborted" (assert failed)
    kind,         \* record type of the current round: "ds","seg","head","sd","ap"
    src,          \* the record R whose encoding was written to buf
    buf2,         \* the bytes a second encoder call returned
    buf,          \* the byte string handed to the decoder
    edit,         \* what was done to buf after encoding: <<"none">>, <<"tamper", i>>, ...
    obj,          \* the object the decoder is called on (its fields)
    op,           \* the decoder that was called last
    tt,           \* the TreeType argument of the last AuditProof::Deserialize
    ret,          \* what the decoder returned (a size_t word or a bool)
    \* the transport: ConnectionPool, its connections, the event loop, UrlFetcher
    FLAGS_url_fetcher_max_conn_per_host_port,
    conns_,             \* ConnectionPool::conns_: key -> deque of connections
    cleanup_scheduled_, \* ConnectionPool::cleanup_scheduled_
    closures_,          \* closures handed to Base::Add and not run yet
    connection,         \* per Connection: TRUE while connection() is not null
    other_end,          \* per Connection: its host:port key
    caller_conn,        \* per calling thread: the unique_ptr<Connection> it
                        \* holds (0 is null)
    created,            \* number of Connection objects constructed so far
    halted,             \* "no", or what ended the process
    last_call,          \* the last call of the pool and what it returned
    put_order,          \* per key: the idle connections, oldest Put first
    states,             \* per request: its State object and its task
    \* the exporter
    gcm,                \* GCMExporter, its push thread and the fetches it made
    \* the event loop and the metrics
    base,               \* libevent::Base and the threads that call it
    metrics             \* Registry, its metrics, their mutexes and the threads

codecvars ==
    <<char_signed, ndebug, buf2, pc, kind, src, buf, edit, obj, op, tt, ret>>

netvars ==
    <<FLAGS_url_fetcher_max_conn_per_host_port, conns_, cleanup_scheduled_,
      closures_, connection, other_end, caller_conn, created, halted, last_call,
      put_order, states>>

vars == <<codecvars, netvars, gcm, base, metrics>>

---------------------------------------------------------------------------
(* Bounds of the model *)

\* longest suffix appended to an encoding
MaxSuffix == 2
\* most nodes in an audit path drawn as input
MaxPath == 2
\* length of the long signature drawn as input (its length byte is >= 0x80)
LongSigLen == 128
\* length of a signature whose length field has a low byte >= 0x80 and a high
\* byte >= 1
WrapSigLen == 384

---------------------------------------------------------------------------
(* size_t arithmetic *)

SizeofSizeT == 8

WordIdx == 1..SizeofSizeT

\* the 8 bytes f[1] .. f[8] as a size_t
Word(f) == <<f[1], f[2], f[3], f[4], f[5], f[6], f[7], f[8]>>

\* the size_t holding the small non-negative integer n
ToWord(n) ==
    <<n % 256, (n \div 256) % 256, (n \div 65536) % 256, (n \div 16777216) % 256,
      0, 0, 0, 0>>

\* a size_t below 2^31 as an integer
ToInt(w) == w[1] + 256 * w[2] + 65536 * w[3] + 16777216 * w[4]

\* a + b modulo 2^64: byte by byte, s_k holding byte k with the carry out of it
AddW(a, b) ==
    LET s1 == a[1] + b[1]
        s2 == a[2] + b[2] + (s1 \div 256)
        s3 == a[3] + b[3] + (s2 \div 256)
        s4 == a[4] + b[4] + (s3 \div 256)
        s5 == a[5] + b[5] + (s4 \div 256)
        s6 == a[6] + b[6] + (s5 \div 256)
        s7 == a[7] + b[7] + (s6 \div 256)
        s8 == a[8] + b[8] + (s7 \div 256)
    IN  <<s1 % 256, s2 % 256, s3 % 256, s4 % 256,
          s5 % 256, s6 % 256, s7 % 256, s8 % 256>>

\* w << 8
Shl8(w) == <<0, w[1], w[2], w[3], w[4], w[5], w[6], w[7]>>

\* w >> (8 * n)
ShrBytes(w, n) ==
    Word([k \in WordIdx |-> IF k + n <= SizeofSizeT THEN w[k + n] ELSE 0])

\* a < b, unsigned
LtW(a, b) ==
    \E k \in WordIdx : a[k] < b[k] /\ \A j \in (k + 1)..SizeofSizeT : a[j] = b[j]

\* in & m for a mask m whose bytes are all 0x00 or 0xff
AndMask(in, m) == Word([k \in WordIdx |-> IF m[k] = 255 THEN in[k] ELSE 0])

\* the int 0xff << (k * 8), converted to size_t for the & (k in 0..3): for k = 3
\* the int is negative and the conversion sign-extends it
ByteMask(k) ==
    Word([j \in WordIdx |-> IF j = k + 1 \/ (k = 3 /\ j > 4) THEN 255 ELSE 0])

\* a plain char (bit pattern c) converted to size_t: a signed char with its
\* top bit set is negative and the conversion sign-extends it
CharToSizeT(c) ==
    IF char_signed /\ c >= 128 THEN <<c, 255, 255, 255, 255, 255, 255, 255>>
    ELSE ToWord(c)

---------------------------------------------------------------------------
(* std::string *)

\* s.substr(pos, n) for integers pos <= size and n
Substr(s, pos, n) ==
    LET m == IF n < Len(s) - pos THEN n ELSE Len(s) - pos
    IN  SubSeq(s, pos + 1, pos + m)

\* s.substr(pos)
SubstrFrom(s, pos) == Substr(s, pos, Len(s) - pos)

\* s.substr(pos, n) for a size_t n: the count is clamped to the rest of s
SubstrW(s, pos, n) ==
    IF LtW(ToWord(Len(s) - pos), n) THEN SubstrFrom(s, pos)
    ELSE Substr(s, pos, ToInt(n))

\* a string of n bytes b
Rep(n, b) == [i \in 1..n |-> b]

---------------------------------------------------------------------------
(* Primitive codec *)

\* the asserts of SerializeUint
SerializeUintPre(in, bytes) ==
    /\ bytes <= SizeofSizeT
    /\ (bytes = SizeofSizeT \/ ShrBytes(in, bytes) = ToWord(0))

RECURSIVE SerializeUintLoop(_, _, _)
SerializeUintLoop(in, bytes, result) ==
    IF bytes > 0
    THEN SerializeUintLoop(in, bytes - 1,
             Append(result,
                    ShrBytes(AndMask(in, ByteMask(bytes - 1)), bytes - 1)[1]))
    ELSE result

\* Serialize MSB to LSB, write |bytes| least significant bytes.
SerializeUint(in, bytes) == SerializeUintLoop(in, bytes, <<>>)

RECURSIVE DeserializeUintLoop(_, _, _)
DeserializeUintLoop(in, i, res) ==
    IF i <= Len(in)
    THEN DeserializeUintLoop(in, i + 1, AddW(Shl8(res), CharToSizeT(in[i])))
    ELSE res

DeserializeUint(in) == DeserializeUintLoop(in, 1, ToWord(0))

\* IsValidHashAlgorithmEnum with the bound off by one (h > 7)
IsValidHashAlgorithmEnumOffByOne(h) == ~LtW(ToWord(7), h)

IsValidHashAlgorithmEnum(h) == ~LtW(ToWord(6), h)

IsValidSignatureAlgorithmEnum(s) == ~LtW(ToWord(3), s)

---------------------------------------------------------------------------
(* DigitallySigned *)

DigitallySigned_Serialize(this) ==
    SerializeUint(ToWord(this.hash_algo), 1)
        \o SerializeUint(ToWord(this.sig_algo), 1)
        \o SerializeUint(ToWord(Len(this.sig_string)), 2)
        \o this.sig_string

\* the asserts a call of DigitallySigned::Serialize passes through
DigitallySigned_SerializeAsserts(this) ==
    /\ SerializeUintPre(ToWord(this.hash_algo), 1)
    /\ SerializeUintPre(ToWord(this.sig_algo), 1)
    /\ SerializeUintPre(ToWord(Len(this.sig_string)), 2)

\* returns [ret |-> bytes consumed (size_t), this |-> the object afterwards]
DigitallySigned_ReadFromString(this, data) ==
    IF Len(data) < 4 THEN [ret |-> ToWord(0), this |-> this]
    ELSE
    LET h == CharToSizeT(data[1])
        s == CharToSizeT(data[2])
    IN  IF ~IsValidHashAlgorithmEnum(h) \/ ~IsValidSignatureAlgorithmEnum(s)
        THEN [ret |-> ToWord(0), this |-> this]
        ELSE
        LET sig_size == DeserializeUint(Substr(data, 2, 2))
        IN  IF LtW(ToWord(Len(data)), AddW(ToWord(4), sig_size))
            THEN [ret |-> ToWord(0), this |-> this]
            ELSE [ret  |-> AddW(ToWord(4), sig_size),
                  this |-> [hash_algo  |-> ToInt(h),
                            sig_algo   |-> ToInt(s),
                            sig_string |-> SubstrW(data, 4, sig_size)]]

\* DigitallySigned::Deserialize without its data.empty() test
DigitallySigned_DeserializeNoEmptyCheck(this, data) ==
    LET r == DigitallySigned_ReadFromString(this, data)
    IN  [ret |-> r.ret = ToWord(Len(data)), this |-> r.this]

\* returns [ret |-> bool, this |-> the object afterwards]
DigitallySigned_Deserialize(this, data) ==
    IF Len(data) = 0 THEN [ret |-> FALSE, this |-> this]
    ELSE
    LET r == DigitallySigned_ReadFromString(this, data)
    IN  IF r.ret # ToWord(Len(data))
        THEN [ret |-> FALSE, this |-> r.this]
        ELSE [ret |-> TRUE, this |-> r.this]

---------------------------------------------------------------------------
(* TreeType: the enumerators of SegmentData::TreeType, in source order *)

LOG_SEGMENT_TREE == 0
SEGMENT_INFO_TREE == 1

---------------------------------------------------------------------------
(* LogSegmentCheckpoint *)

\* LogSegmentCheckpoint::Serialize writing segment_size before sequence_number
LogSegmentCheckpoint_SerializeSizeFirst(this) ==
    SerializeUint(this.segment_size, 4)
        \o SerializeUint(this.sequence_number, 4)
        \o DigitallySigned_Serialize(this.signature)
        \o this.root

LogSegmentCheckpoint_Serialize(this) ==
    SerializeUint(this.sequence_number, 4)
        \o SerializeUint(this.segment_size, 4)
        \o DigitallySigned_Serialize(this.signature)
        \o this.root

\* LogSegmentCheckpoint::Serialize without its assert on the root
LogSegmentCheckpoint_SerializeAssertsNoRoot(this) ==
    /\ SerializeUintPre(this.sequence_number, 4)
    /\ SerializeUintPre(this.segment_size, 4)
    /\ DigitallySigned_SerializeAsserts(this.signature)

\* the asserts a call of LogSegmentCheckpoint::Serialize passes through
LogSegmentCheckpoint_SerializeAsserts(this) ==
    /\ SerializeUintPre(this.sequence_number, 4)
    /\ SerializeUintPre(this.segment_size, 4)
    /\ DigitallySigned_SerializeAsserts(this.signature)
    /\ Len(this.root) = 32

\* LogSegmentCheckpoint::SerializeTreeData leaving segment_size out
LogSegmentCheckpoint_SerializeTreeDataNoSegmentSize(this) ==
    SerializeUint(ToWord(LOG_SEGMENT_TREE), 1)
        \o SerializeUint(this.sequence_number, 4)
        \o this.root

LogSegmentCheckpoint_SerializeTreeData(this) ==
    SerializeUint(ToWord(LOG_SEGMENT_TREE), 1)
        \o SerializeUint(this.sequence_number, 4)
        \o SerializeUint(this.segment_size, 4)
        \o this.root

\* the asserts a call of LogSegmentCheckpoint::SerializeTreeData passes through
LogSegmentCheckpoint_SerializeTreeDataAsserts(this) ==
    /\ SerializeUintPre(ToWord(LOG_SEGMENT_TREE), 1)
    /\ SerializeUintPre(this.sequence_number, 4)
    /\ SerializeUintPre(this.segment_size, 4)
    /\ Len(this.root) = 32

\* returns [ret |-> bool, this |-> the object afterwards]
LogSegmentCheckpoint_Deserialize(this, data) ==
    IF Len(data) < 8 THEN [ret |-> FALSE, this |-> this]
    ELSE
    LET sig  == DigitallySigned_ReadFromString(this.signature, SubstrFrom(data, 8))
        this1 == [this EXCEPT !.sequence_number = DeserializeUint(Substr(data, 0, 4)),
                              !.segment_size = DeserializeUint(Substr(data, 4, 4)),
                              !.signature = sig.this]
        pos  == AddW(ToWord(8), sig.ret)
    IN  IF sig.ret = ToWord(0) THEN [ret |-> FALSE, this |-> this1]
        ELSE IF ToWord(Len(data)) # AddW(pos, ToWord(32))
        THEN [ret |-> FALSE, this |-> this1]
        ELSE [ret |-> TRUE,
              this |-> [this1 EXCEPT !.root = SubstrFrom(data, ToInt(pos))]]

---------------------------------------------------------------------------
(* LogHeadCheckpoint *)

\* LogHeadCheckpoint::Serialize writing the root before the signature
LogHeadCheckpoint_SerializeRootFirst(this) ==
    SerializeUint(this.sequence_number, 4)
        \o this.root
        \o DigitallySigned_Serialize(this.signature)

LogHeadCheckpoint_Serialize(this) ==
    SerializeUint(this.sequence_number, 4)
        \o DigitallySigned_Serialize(this.signature)
        \o this.root

\* the asserts a call of LogHeadCheckpoint::Serialize passes through
LogHeadCheckpoint_SerializeAsserts(this) ==
    /\ SerializeUintPre(this.sequence_number, 4)
    /\ DigitallySigned_SerializeAsserts(this.signature)
    /\ Len(this.root) = 32

LogHeadCheckpoint_SerializeTreeData(this) ==
    SerializeUint(ToWord(SEGMENT_INFO_TREE), 1)
        \o SerializeUint(this.sequence_number, 4)
        \o this.root

\* the asserts a call of LogHeadCheckpoint::SerializeTreeData passes through
LogHeadCheckpoint_SerializeTreeDataAsserts(this) ==
    /\ SerializeUintPre(ToWord(SEGMENT_INFO_TREE), 1)
    /\ SerializeUintPre(this.sequence_number, 4)
    /\ Len(this.root) = 32

\* LogHeadCheckpoint::Deserialize storing root before it checks what remains
LogHeadCheckpoint_DeserializeRootFirst(this, data) ==
    IF Len(data) < 4 THEN [ret |-> FALSE, this |-> this]
    ELSE
    LET sig  == DigitallySigned_ReadFromString(this.signature, SubstrFrom(data, 4))
        this1 == [this EXCEPT !.sequence_number = DeserializeUint(Substr(data, 0, 4)),
                              !.signature = sig.this]
        pos  == AddW(ToWord(4), sig.ret)
    IN  IF sig.ret = ToWord(0) THEN [ret |-> FALSE, this |-> this1]
        ELSE [ret |-> ToWord(Len(data)) = AddW(pos, ToWord(32)),
              this |-> [this1 EXCEPT !.root = SubstrFrom(data, ToInt(pos))]]

\* returns [ret |-> bool, this |-> the object afterwards]
LogHeadCheckpoint_Deserialize(this, data) ==
    IF Len(data) < 4 THEN [ret |-> FALSE, this |-> this]
    ELSE
    LET sig  == DigitallySigned_ReadFromString(this.signature, SubstrFrom(data, 4))
        this1 == [this EXCEPT !.sequence_number = DeserializeUint(Substr(data, 0, 4)),
                              !.signature = sig.this]
        pos  == AddW(ToWord(4), sig.ret)
    IN  IF sig.ret = ToWord(0) THEN [ret |-> FALSE, this |-> this1]
        ELSE IF ToWord(Len(data)) # AddW(pos, ToWord(32))
        THEN [ret |-> FALSE, this |-> this1]
        ELSE [ret |-> TRUE,
              this |-> [this1 EXCEPT !.root = SubstrFrom(data, ToInt(pos))]]

---------------------------------------------------------------------------
(* SegmentData *)

\* the assert of SerializeSegmentInfo
SerializeSegmentInfoPre(this) ==
    this.log_segment.sequence_number = this.log_head.sequence_number

SegmentData_SerializeSegmentInfo(this) ==
    SerializeUint(this.log_segment.sequence_number, 4)
        \o SerializeUint(this.timestamp, 4)
        \o SerializeUint(this.log_segment.segment_size, 4)
        \o DigitallySigned_Serialize(this.log_segment.signature)
        \o DigitallySigned_Serialize(this.log_head.signature)

\* the asserts a call of SegmentData::SerializeSegmentInfo passes through
SegmentData_SerializeSegmentInfoAsserts(this) ==
    /\ SerializeSegmentInfoPre(this)
    /\ SerializeUintPre(this.log_segment.sequence_number, 4)
    /\ SerializeUintPre(this.timestamp, 4)
    /\ SerializeUintPre(this.log_segment.segment_size, 4)
    /\ DigitallySigned_SerializeAsserts(this.log_segment.signature)
    /\ DigitallySigned_SerializeAsserts(this.log_head.signature)

\* DeserializeSegmentInfo without its assignment to log_head.sequence_number
SegmentData_DeserializeSegmentInfoSegmentOnly(this, data) ==
    IF Len(data) < 12 THEN [ret |-> FALSE, this |-> this]
    ELSE
    LET seq  == DeserializeUint(Substr(data, 0, 4))
        sig1 == DigitallySigned_ReadFromString(this.log_segment.signature,
                                               SubstrFrom(data, 12))
        this1 == [this EXCEPT !.log_segment.sequence_number = seq,
                              !.timestamp = DeserializeUint(Substr(data, 4, 4)),
                              !.log_segment.segment_size =
                                  DeserializeUint(Substr(data, 8, 4)),
                              !.log_segment.signature = sig1.this]
    IN  IF sig1.ret = ToWord(0) THEN [ret |-> FALSE, this |-> this1]
        ELSE
        LET sig2 == DigitallySigned_Deserialize(this.log_head.signature,
                        SubstrFrom(data, 12 + ToInt(sig1.ret)))
        IN  [ret |-> sig2.ret,
             this |-> [this1 EXCEPT !.log_head.signature = sig2.this]]

\* returns [ret |-> bool, this |-> the object afterwards]
SegmentData_DeserializeSegmentInfo(this, data) ==
    IF Len(data) < 12 THEN [ret |-> FALSE, this |-> this]
    ELSE
    LET seq  == DeserializeUint(Substr(data, 0, 4))
        sig1 == DigitallySigned_ReadFromString(this.log_segment.signature,
                                               SubstrFrom(data, 12))
        this1 == [this EXCEPT !.log_segment.sequence_number = seq,
                              !.log_head.sequence_number = seq,
                              !.timestamp = DeserializeUint(Substr(data, 4, 4)),
                              !.log_segment.segment_size =
                                  DeserializeUint(Substr(data, 8, 4)),
                              !.log_segment.signature = sig1.this]
    IN  IF sig1.ret = ToWord(0) THEN [ret |-> FALSE, this |-> this1]
        ELSE
        LET sig2 == DigitallySigned_Deserialize(this.log_head.signature,
                        SubstrFrom(data, 12 + ToInt(sig1.ret)))
        IN  [ret |-> sig2.ret,
             this |-> [this1 EXCEPT !.log_head.signature = sig2.this]]

---------------------------------------------------------------------------
(* AuditProof *)

RECURSIVE ConcatAll(_)
ConcatAll(path) ==
    IF path = <<>> THEN <<>> ELSE Head(path) \o ConcatAll(Tail(path))

AuditProof_Serialize(this) ==
    SerializeUint(this.sequence_number, 4)
        \o (IF this.tree_type = LOG_SEGMENT_TREE
            THEN SerializeUint(this.tree_size, 4) ELSE <<>>)
        \o SerializeUint(this.leaf_index, 4)
        \o DigitallySigned_Serialize(this.signature)
        \o ConcatAll(this.audit_path)

\* the asserts a call of AuditProof::Serialize passes through
AuditProof_SerializeAsserts(this) ==
    /\ SerializeUintPre(this.sequence_number, 4)
    /\ (this.tree_type = LOG_SEGMENT_TREE => SerializeUintPre(this.tree_size, 4))
    /\ SerializeUintPre(this.leaf_index, 4)
    /\ DigitallySigned_SerializeAsserts(this.signature)
    /\ \A i \in 1..Len(this.audit_path) : Len(this.audit_path[i]) = 32

RECURSIVE ChunkPath(_, _, _)
\* the while loop of AuditProof::Deserialize
ChunkPath(proof, pos, audit_path) ==
    IF SubstrFrom(proof, pos) # <<>>
    THEN ChunkPath(proof, pos + 32, Append(audit_path, Substr(proof, pos, 32)))
    ELSE audit_path

\* AuditProof::Deserialize without its test of the remaining length
AuditProof_DeserializeNoAlignmentCheck(this, type, proof) ==
    LET t0 == [this EXCEPT !.tree_type = type]
    IN
    IF Len(proof) < 4 THEN [ret |-> FALSE, this |-> t0]
    ELSE
    LET seq == DeserializeUint(Substr(proof, 0, 4))
        t1  == [t0 EXCEPT !.sequence_number = seq]
    IN
    IF type = LOG_SEGMENT_TREE /\ Len(proof) < 8 THEN [ret |-> FALSE, this |-> t1]
    ELSE
    LET pos1 == IF type = LOG_SEGMENT_TREE THEN 8 ELSE 4
        t2 == [t1 EXCEPT !.tree_size =
                   IF type = LOG_SEGMENT_TREE
                   THEN DeserializeUint(Substr(proof, 4, 4))
                   ELSE AddW(seq, ToWord(1))]
    IN
    IF Len(proof) < pos1 + 4 THEN [ret |-> FALSE, this |-> t2]
    ELSE
    LET pos2 == pos1 + 4
        sig == DigitallySigned_ReadFromString(this.signature, SubstrFrom(proof, pos2))
        t3  == [t2 EXCEPT !.leaf_index = DeserializeUint(Substr(proof, pos1, 4)),
                          !.signature = sig.this]
    IN
    IF sig.ret = ToWord(0) THEN [ret |-> FALSE, this |-> t3]
    ELSE
    LET pos3 == pos2 + ToInt(sig.ret)
    IN  IF FALSE THEN [ret |-> FALSE, this |-> t3]
        ELSE [ret |-> TRUE,
              this |-> [t3 EXCEPT !.audit_path = ChunkPath(proof, pos3, <<>>)]]

\* AuditProof::Deserialize also refusing a buffer that ends after the signature
AuditProof_DeserializeNonEmptyPath(this, type, proof) ==
    LET t0 == [this EXCEPT !.tree_type = type]
    IN
    IF Len(proof) < 4 THEN [ret |-> FALSE, this |-> t0]
    ELSE
    LET seq == DeserializeUint(Substr(proof, 0, 4))
        t1  == [t0 EXCEPT !.sequence_number = seq]
    IN
    IF type = LOG_SEGMENT_TREE /\ Len(proof) < 8 THEN [ret |-> FALSE, this |-> t1]
    ELSE
    LET pos1 == IF type = LOG_SEGMENT_TREE THEN 8 ELSE 4
        t2 == [t1 EXCEPT !.tree_size =
                   IF type = LOG_SEGMENT_TREE
                   THEN DeserializeUint(Substr(proof, 4, 4))
                   ELSE AddW(seq, ToWord(1))]
    IN
    IF Len(proof) < pos1 + 4 THEN [ret |-> FALSE, this |-> t2]
    ELSE
    LET pos2 == pos1 + 4
        sig == DigitallySigned_ReadFromString(this.signature, SubstrFrom(proof, pos2))
        t3  == [t2 EXCEPT !.leaf_index = DeserializeUint(Substr(proof, pos1, 4)),
                          !.signature = sig.this]
    IN
    IF sig.ret = ToWord(0) THEN [ret |-> FALSE, this |-> t3]
    ELSE
    LET pos3 == pos2 + ToInt(sig.ret)
    IN  IF Len(SubstrFrom(proof, pos3)) % 32 # 0 \/ SubstrFrom(proof, pos3) = <<>> THEN [ret |-> FALSE, this |-> t3]
        ELSE [ret |-> TRUE,
              this |-> [t3 EXCEPT !.audit_path = ChunkPath(proof, pos3, <<>>)]]

\* AuditProof::Deserialize without audit_path.clear()
AuditProof_DeserializeNoClear(this, type, proof) ==
    LET t0 == [this EXCEPT !.tree_type = type]
    IN
    IF Len(proof) < 4 THEN [ret |-> FALSE, this |-> t0]
    ELSE
    LET seq == DeserializeUint(Substr(proof, 0, 4))
        t1  == [t0 EXCEPT !.sequence_number = seq]
    IN
    IF type = LOG_SEGMENT_TREE /\ Len(proof) < 8 THEN [ret |-> FALSE, this |-> t1]
    ELSE
    LET pos1 == IF type = LOG_SEGMENT_TREE THEN 8 ELSE 4
        t2 == [t1 EXCEPT !.tree_size =
                   IF type = LOG_SEGMENT_TREE
                   THEN DeserializeUint(Substr(proof, 4, 4))
                   ELSE AddW(seq, ToWord(1))]
    IN
    IF Len(proof) < pos1 + 4 THEN [ret |-> FALSE, this |-> t2]
    ELSE
    LET pos2 == pos1 + 4
        sig == DigitallySigned_ReadFromString(this.signature, SubstrFrom(proof, pos2))
        t3  == [t2 EXCEPT !.leaf_index = DeserializeUint(Substr(proof, pos1, 4)),
                          !.signature = sig.this]
    IN
    IF sig.ret = ToWord(0) THEN [ret |-> FALSE, this |-> t3]
    ELSE
    LET pos3 == pos2 + ToInt(sig.ret)
    IN  IF Len(SubstrFrom(proof, pos3)) % 32 # 0 THEN [ret |-> FALSE, this |-> t3]
        ELSE [ret |-> TRUE,
              this |-> [t3 EXCEPT !.audit_path = ChunkPath(proof, pos3, this.audit_path)]]

\* returns [ret |-> bool, this |-> the object afterwards]
AuditProof_Deserialize(this, type, proof) ==
    LET t0 == [this EXCEPT !.tree_type = type]
    IN
    IF Len(proof) < 4 THEN [ret |-> FALSE, this |-> t0]
    ELSE
    LET seq == DeserializeUint(Substr(proof, 0, 4))
        t1  == [t0 EXCEPT !.sequence_number = seq]
    IN
    IF type = LOG_SEGMENT_TREE /\ Len(proof) < 8 THEN [ret |-> FALSE, this |-> t1]
    ELSE
    LET pos1 == IF type = LOG_SEGMENT_TREE THEN 8 ELSE 4
        t2 == [t1 EXCEPT !.tree_size =
                   IF type = LOG_SEGMENT_TREE
                   THEN DeserializeUint(Substr(proof, 4, 4))
                   ELSE AddW(seq, ToWord(1))]
    IN
    IF Len(proof) < pos1 + 4 THEN [ret |-> FALSE, this |-> t2]
    ELSE
    LET pos2 == pos1 + 4
        sig == DigitallySigned_ReadFromString(this.signature, SubstrFrom(proof, pos2))
        t3  == [t2 EXCEPT !.leaf_index = DeserializeUint(Substr(proof, pos1, 4)),
                          !.signature = sig.this]
    IN
    IF sig.ret = ToWord(0) THEN [ret |-> FALSE, this |-> t3]
    ELSE
    LET pos3 == pos2 + ToInt(sig.ret)
    IN  IF Len(SubstrFrom(proof, pos3)) % 32 # 0 THEN [ret |-> FALSE, this |-> t3]
        ELSE [ret |-> TRUE,
              this |-> [t3 EXCEPT !.audit_path = ChunkPath(proof, pos3, <<>>)]]

---------------------------------------------------------------------------
(* Inputs *)

\* byte values written over a byte of an encoding or appended to it
ByteVals == {0, 1, 4, 7, 128, 252, 253, 255}

\* 2^32 - 1, the largest Uint(4)
MaxUint32 == <<255, 255, 255, 255, 0, 0, 0, 0>>

UintInputs == {ToWord(7), ToWord(128), MaxUint32}

HashInputs == {Rep(32, 0), Rep(32, 170)}

DS(h, s, sig) == [hash_algo |-> h, sig_algo |-> s, sig_string |-> sig]

\* <<v, n>>: a value v < 2^(8n) to write in n bytes
UintCallInputs ==
    {<<ToWord(0), 1>>, <<ToWord(7), 1>>, <<ToWord(128), 1>>, <<ToWord(255), 1>>,
     <<ToWord(3), 2>>, <<ToWord(384), 2>>, <<ToWord(65535), 2>>,
     <<ToWord(16909060), 4>>, <<ToWord(128), 4>>, <<MaxUint32, 4>>}

\* every valid pair of algorithms with an empty signature, a short signature,
\* and a long one
DigitallySignedInputs ==
    {DS(h, s, <<>>) : h \in 0..6, s \in 0..3}
        \cup {DS(4, 3, <<65, 66, 67>>), DS(1, 1, Rep(LongSigLen, 170))}

\* signatures embedded in the other records
SignatureInputs == {DS(1, 1, <<>>), DS(4, 3, <<65, 66, 67>>)}

LogSegmentCheckpointInputs ==
    {[sequence_number |-> n, segment_size |-> z, signature |-> sg, root |-> r] :
        n \in UintInputs, z \in {ToWord(9), ToWord(128)},
        sg \in SignatureInputs, r \in HashInputs}

LogHeadCheckpointInputs ==
    {[sequence_number |-> n, signature |-> sg, root |-> r] :
        n \in UintInputs, sg \in SignatureInputs, r \in HashInputs}

SegmentDataInputs ==
    {[log_segment |-> [sequence_number |-> n, segment_size |-> ToWord(9),
                       signature |-> sg1, root |-> Rep(32, 170)],
      log_head    |-> [sequence_number |-> n, signature |-> sg2,
                       root |-> Rep(32, 0)],
      timestamp   |-> ts] :
        n \in {ToWord(5), MaxUint32}, ts \in {ToWord(5), ToWord(128)},
        sg1 \in SignatureInputs, sg2 \in SignatureInputs}
    \cup
    \* a first signature of WrapSigLen bytes that holds the bytes 00 00 01 01
    \* 256 bytes before its end
    {[log_segment |-> [sequence_number |-> ToWord(5), segment_size |-> ToWord(9),
                       signature |-> DS(1, 1, Rep(WrapSigLen - 256, 170)
                                                 \o <<0, 0, 1, 1>>
                                                 \o Rep(252, 170)),
                       root |-> Rep(32, 170)],
      log_head    |-> [sequence_number |-> ToWord(5), signature |-> DS(1, 1, <<>>),
                       root |-> Rep(32, 0)],
      timestamp   |-> ToWord(5)]}

\* the path of n nodes aa.., bb.., aa.., ...
Path(n) == [i \in 1..n |-> IF i % 2 = 1 THEN Rep(32, 170) ELSE Rep(32, 187)]

PathInputs == {Path(n) : n \in 0..MaxPath}

AP(t, q, sg, p) ==
    [tree_type |-> t, sequence_number |-> q[1], tree_size |-> q[2],
     leaf_index |-> q[3], signature |-> sg, audit_path |-> p]

\* <<sequence_number, tree_size, leaf_index>>
AuditProofCounters ==
    {<<ToWord(5), ToWord(9), ToWord(3)>>,
     <<ToWord(5), ToWord(6), ToWord(1)>>,
     <<ToWord(128), ToWord(129), ToWord(0)>>,
     <<MaxUint32, MaxUint32, MaxUint32>>}

AuditProofInputs ==
    {AP(t, q, DS(1, 1, <<>>), p) :
        t \in {LOG_SEGMENT_TREE, SEGMENT_INFO_TREE},
        q \in AuditProofCounters, p \in PathInputs}
    \cup
    {AP(t, <<ToWord(5), ToWord(6), ToWord(1)>>, DS(4, 3, <<65, 66, 67>>), <<>>) :
        t \in {LOG_SEGMENT_TREE, SEGMENT_INFO_TREE}}

\* The object the decoder is called on: newly constructed (empty strings, empty
\* path, zero integers), or one that holds an earlier record.
NewDigitallySigned == DS(0, 0, <<>>)
UsedDigitallySigned == DS(2, 2, <<90>>)

NewLogSegmentCheckpoint ==
    [sequence_number |-> ToWord(0), segment_size |-> ToWord(0),
     signature |-> NewDigitallySigned, root |-> <<>>]
UsedLogSegmentCheckpoint ==
    [sequence_number |-> ToWord(3), segment_size |-> ToWord(4),
     signature |-> UsedDigitallySigned, root |-> Rep(32, 17)]

NewLogHeadCheckpoint ==
    [sequence_number |-> ToWord(0), signature |-> NewDigitallySigned, root |-> <<>>]
UsedLogHeadCheckpoint ==
    [sequence_number |-> ToWord(3), signature |-> UsedDigitallySigned,
     root |-> Rep(32, 17)]

NewSegmentData ==
    [log_segment |-> NewLogSegmentCheckpoint, log_head |-> NewLogHeadCheckpoint,
     timestamp |-> ToWord(0)]
UsedSegmentData ==
    [log_segment |-> UsedLogSegmentCheckpoint, log_head |-> UsedLogHeadCheckpoint,
     timestamp |-> ToWord(2)]

\* a SegmentData whose two sequence numbers were assigned apart
UnpairedSegmentData ==
    [UsedSegmentData EXCEPT !.log_head.sequence_number = ToWord(4)]

NewAuditProof ==
    [tree_type |-> LOG_SEGMENT_TREE, sequence_number |-> ToWord(0),
     tree_size |-> ToWord(0), leaf_index |-> ToWord(0),
     signature |-> NewDigitallySigned, audit_path |-> <<>>]
UsedAuditProof ==
    [tree_type |-> SEGMENT_INFO_TREE, sequence_number |-> ToWord(3),
     tree_size |-> ToWord(4), leaf_index |-> ToWord(2),
     signature |-> UsedDigitallySigned, audit_path |-> <<Rep(32, 17)>>]

---------------------------------------------------------------------------
(* The caller: encode a record, hand the bytes (as they are, or altered on *)
(* the way) to a decoder                                                   *)

\* the codec does no I/O: no pool, no connection, no request
NoTransport ==
    /\ FLAGS_url_fetcher_max_conn_per_host_port = 0
    /\ conns_ = <<>>
    /\ cleanup_scheduled_ = FALSE
    /\ closures_ = <<>>
    /\ connection = <<>>
    /\ other_end = <<>>
    /\ caller_conn = <<>>
    /\ created = 0
    /\ halted = "no"
    /\ last_call = <<>>
    /\ put_order = <<>>
    /\ states = <<>>

\* The records encoded below all satisfy the encoders' asserts, so the build
\* with asserts is the one followed.
Init ==
    /\ char_signed \in BOOLEAN
    /\ ndebug = FALSE
    /\ buf2 = <<>>
    /\ pc = "idle"
    /\ kind = "none"
    /\ src = <<>>
    /\ buf = <<>>
    /\ edit = <<"none">>
    /\ obj = <<>>
    /\ op = "none"
    /\ tt = LOG_SEGMENT_TREE
    /\ ret = FALSE
    /\ NoTransport
    /\ gcm = <<>>
    /\ base = <<>>
    /\ metrics = <<>>

Encoded(k, R, bytes, target) ==
    /\ pc' = "enc"
    /\ kind' = k
    /\ src' = R
    /\ buf' = bytes
    /\ edit' = <<"none">>
    /\ obj' = target
    /\ op' = "none"
    /\ ret' = FALSE
    /\ UNCHANGED <<char_signed, ndebug, buf2, tt, netvars, gcm, base, metrics>>

CallSerializeUint ==
    \E c \in UintCallInputs :
        /\ pc = "idle"
        /\ SerializeUintPre(c[1], c[2])
        /\ Encoded("uint", c[1], SerializeUint(c[1], c[2]), <<>>)

SerializeDigitallySigned ==
    \E R \in DigitallySignedInputs,
       target \in {NewDigitallySigned, UsedDigitallySigned} :
        /\ pc = "idle"
        /\ Encoded("ds", R, DigitallySigned_Serialize(R), target)

SerializeLogSegmentCheckpoint ==
    \E R \in LogSegmentCheckpointInputs,
       target \in {NewLogSegmentCheckpoint, UsedLogSegmentCheckpoint} :
        /\ pc = "idle"
        /\ Encoded("seg", R, LogSegmentCheckpoint_Serialize(R), target)

SerializeLogHeadCheckpoint ==
    \E R \in LogHeadCheckpointInputs,
       target \in {NewLogHeadCheckpoint, UsedLogHeadCheckpoint} :
        /\ pc = "idle"
        /\ Encoded("head", R, LogHeadCheckpoint_Serialize(R), target)

SerializeSegmentInfo ==
    \E R \in SegmentDataInputs,
       target \in {NewSegmentData, UsedSegmentData, UnpairedSegmentData} :
        /\ pc = "idle"
        /\ SerializeSegmentInfoPre(R)
        /\ Encoded("sd", R, SegmentData_SerializeSegmentInfo(R), target)

SerializeAuditProof ==
    \E R \in AuditProofInputs, target \in {NewAuditProof, UsedAuditProof} :
        /\ pc = "idle"
        /\ Encoded("ap", R, AuditProof_Serialize(R), target)

Edited(bytes, e) ==
    /\ buf' = bytes
    /\ edit' = e
    /\ UNCHANGED <<char_signed, ndebug, buf2, pc, kind, src, obj, op, tt, ret, netvars, gcm, base, metrics>>

\* one byte of the encoding is replaced by a different value
Tamper ==
    \E i \in 1..Len(buf), b \in ByteVals :
        /\ pc = "enc" /\ edit = <<"none">>
        /\ b # buf[i]
        /\ Edited([buf EXCEPT ![i] = b], <<"tamper", i>>)

\* bytes follow the encoding
AppendSuffix ==
    \E n \in 1..MaxSuffix, b \in ByteVals :
        /\ pc = "enc" /\ edit = <<"none">>
        /\ Edited(buf \o Rep(n, b), <<"suffix", n>>)

\* a whole further 32-byte node follows the encoding
AppendNode ==
    \E h \in HashInputs :
        /\ pc = "enc" /\ edit = <<"none">>
        /\ Edited(buf \o h, <<"suffix", 32>>)

\* only the first n bytes of the encoding arrive
Truncate ==
    \E n \in 0..(Len(buf) - 1) :
        /\ pc = "enc" /\ edit = <<"none">>
        /\ Edited(Substr(buf, 0, n), <<"trunc", n>>)

Decoded(name, r) ==
    /\ pc = "enc"
    /\ pc' = "done"
    /\ op' = name
    /\ obj' = r.this
    /\ ret' = r.ret
    /\ UNCHANGED <<char_signed, ndebug, buf2, kind, src, buf, edit, netvars, gcm, base, metrics>>

CallDeserializeUint ==
    /\ kind = "uint"
    /\ Len(buf) <= SizeofSizeT
    /\ Decoded("DeserializeUint", [ret |-> DeserializeUint(buf), this |-> obj])
    /\ UNCHANGED tt

ReadFromString ==
    /\ kind = "ds"
    /\ Decoded("ReadFromString", DigitallySigned_ReadFromString(obj, buf))
    /\ UNCHANGED tt

DeserializeDigitallySigned ==
    /\ kind = "ds"
    /\ Decoded("Deserialize", DigitallySigned_Deserialize(obj, buf))
    /\ UNCHANGED tt

DeserializeLogSegmentCheckpoint ==
    /\ kind = "seg"
    /\ Decoded("Deserialize", LogSegmentCheckpoint_Deserialize(obj, buf))
    /\ UNCHANGED tt

DeserializeLogHeadCheckpoint ==
    /\ kind = "head"
    /\ Decoded("Deserialize", LogHeadCheckpoint_Deserialize(obj, buf))
    /\ UNCHANGED tt

DeserializeSegmentInfo ==
    /\ kind = "sd"
    /\ Decoded("Deserialize", SegmentData_DeserializeSegmentInfo(obj, buf))
    /\ UNCHANGED tt

DeserializeAuditProof ==
    /\ kind = "ap"
    /\ \E type \in {LOG_SEGMENT_TREE, SEGMENT_INFO_TREE} :
        /\ Decoded("Deserialize", AuditProof_Deserialize(obj, type, buf))
        /\ tt' = type

Next ==
    \/ CallSerializeUint
    \/ CallDeserializeUint
    \/ SerializeDigitallySigned
    \/ SerializeLogSegmentCheckpoint
    \/ SerializeLogHeadCheckpoint
    \/ SerializeSegmentInfo
    \/ SerializeAuditProof
    \/ Tamper
    \/ AppendSuffix
    \/ AppendNode
    \/ Truncate
    \/ ReadFromString
    \/ DeserializeDigitallySigned
    \/ DeserializeLogSegmentCheckpoint
    \/ DeserializeLogHeadCheckpoint
    \/ DeserializeSegmentInfo
    \/ DeserializeAuditProof

Spec == Init /\ [][Next]_vars

---------------------------------------------------------------------------
(* The encoders called on records of any shape, in either build *)

\* algorithm values in and out of the enumerations, and one past a byte
EncSignatureInputs ==
    SignatureInputs
        \cup {DS(7, 1, <<>>), DS(1, 4, <<>>), DS(255, 255, <<1>>), DS(256, 0, <<>>)}

\* roots of 32 bytes and of other lengths
EncRootInputs == HashInputs \cup {<<>>, Rep(31, 0), Rep(33, 0)}

EncLogSegmentCheckpointInputs ==
    {[sequence_number |-> n, segment_size |-> z, signature |-> sg, root |-> r] :
        n \in {ToWord(7), MaxUint32}, z \in {ToWord(9), ToWord(128)},
        sg \in EncSignatureInputs, r \in EncRootInputs}

EncLogHeadCheckpointInputs ==
    {[sequence_number |-> n, signature |-> sg, root |-> r] :
        n \in {ToWord(7), MaxUint32}, sg \in EncSignatureInputs,
        r \in EncRootInputs}

EncSegmentDataInputs ==
    {[log_segment |-> [sequence_number |-> ToWord(5), segment_size |-> ToWord(9),
                       signature |-> sg1, root |-> r1],
      log_head    |-> [sequence_number |-> n2, signature |-> DS(1, 1, <<>>),
                       root |-> r2],
      timestamp   |-> ToWord(5)] :
        n2 \in {ToWord(5), ToWord(6)}, sg1 \in EncSignatureInputs,
        r1 \in EncRootInputs, r2 \in {Rep(32, 0), Rep(31, 0)}}

EncAuditProofInputs ==
    {AP(t, <<ToWord(5), ToWord(9), ToWord(3)>>, sg, p) :
        t \in {LOG_SEGMENT_TREE, SEGMENT_INFO_TREE}, sg \in EncSignatureInputs,
        p \in PathInputs \cup {<<Rep(32, 170), Rep(31, 0)>>, <<Rep(33, 0)>>}}

InitEnc ==
    /\ char_signed \in BOOLEAN
    /\ ndebug \in BOOLEAN
    /\ pc = "idle"
    /\ kind = "none"
    /\ src = <<>>
    /\ buf = <<>>
    /\ buf2 = <<>>
    /\ edit = <<"none">>
    /\ obj = <<>>
    /\ op = "none"
    /\ tt = LOG_SEGMENT_TREE
    /\ ret = FALSE
    /\ NoTransport
    /\ gcm = <<>>
    /\ base = <<>>
    /\ metrics = <<>>

\* An encoder call on R: a failed assert aborts the program, unless the build
\* defines NDEBUG; otherwise the call returns bytes.
Returned(k, name, R, asserts, bytes) ==
    /\ kind' = k
    /\ op' = name
    /\ src' = R
    /\ IF ~ndebug /\ ~asserts
       THEN pc' = "aborted" /\ buf' = <<>>
       ELSE pc' = "out" /\ buf' = bytes
    /\ UNCHANGED <<char_signed, ndebug, buf2, edit, obj, tt, ret, netvars, gcm, base, metrics>>

\* A second call of the same encoder, on the record R2.
ReturnedAgain(R2, asserts, bytes) ==
    /\ obj' = R2
    /\ IF ~ndebug /\ ~asserts
       THEN pc' = "aborted" /\ buf2' = <<>>
       ELSE pc' = "out2" /\ buf2' = bytes
    /\ UNCHANGED <<char_signed, ndebug, kind, op, src, buf, edit, tt, ret, netvars, gcm, base, metrics>>

DigitallySigned_Serialize_Call ==
    /\ pc = "idle"
    /\ \E R \in EncSignatureInputs :
           Returned("ds", "Serialize", R, DigitallySigned_SerializeAsserts(R),
                    DigitallySigned_Serialize(R))

LogSegmentCheckpoint_Serialize_Call ==
    /\ pc = "idle"
    /\ \E R \in EncLogSegmentCheckpointInputs :
           Returned("seg", "Serialize", R, LogSegmentCheckpoint_SerializeAsserts(R),
                    LogSegmentCheckpoint_Serialize(R))

LogSegmentCheckpoint_SerializeTreeData_Call ==
    /\ pc = "idle"
    /\ \E R \in EncLogSegmentCheckpointInputs :
           Returned("seg", "SerializeTreeData", R,
                    LogSegmentCheckpoint_SerializeTreeDataAsserts(R),
                    LogSegmentCheckpoint_SerializeTreeData(R))

LogSegmentCheckpoint_SerializeTreeData_Again ==
    /\ pc = "out" /\ kind = "seg" /\ op = "SerializeTreeData"
    /\ \E R2 \in EncLogSegmentCheckpointInputs :
           ReturnedAgain(R2, LogSegmentCheckpoint_SerializeTreeDataAsserts(R2),
                         LogSegmentCheckpoint_SerializeTreeData(R2))

LogHeadCheckpoint_Serialize_Call ==
    /\ pc = "idle"
    /\ \E R \in EncLogHeadCheckpointInputs :
           Returned("head", "Serialize", R, LogHeadCheckpoint_SerializeAsserts(R),
                    LogHeadCheckpoint_Serialize(R))

LogHeadCheckpoint_SerializeTreeData_Call ==
    /\ pc = "idle"
    /\ \E R \in EncLogHeadCheckpointInputs :
           Returned("head", "SerializeTreeData", R,
                    LogHeadCheckpoint_SerializeTreeDataAsserts(R),
                    LogHeadCheckpoint_SerializeTreeData(R))

LogHeadCheckpoint_SerializeTreeData_Again ==
    /\ pc = "out" /\ kind = "head" /\ op = "SerializeTreeData"
    /\ \E R2 \in EncLogHeadCheckpointInputs :
           ReturnedAgain(R2, LogHeadCheckpoint_SerializeTreeDataAsserts(R2),
                         LogHeadCheckpoint_SerializeTreeData(R2))

SegmentData_SerializeSegmentInfo_Call ==
    /\ pc = "idle"
    /\ \E R \in EncSegmentDataInputs :
           Returned("sd", "SerializeSegmentInfo", R,
                    SegmentData_SerializeSegmentInfoAsserts(R),
                    SegmentData_SerializeSegmentInfo(R))

AuditProof_Serialize_Call ==
    /\ pc = "idle"
    /\ \E R \in EncAuditProofInputs :
           Returned("ap", "Serialize", R, AuditProof_SerializeAsserts(R),
                    AuditProof_Serialize(R))

NextEnc ==
    \/ DigitallySigned_Serialize_Call
    \/ LogSegmentCheckpoint_Serialize_Call
    \/ LogSegmentCheckpoint_SerializeTreeData_Call
    \/ LogSegmentCheckpoint_SerializeTreeData_Again
    \/ LogHeadCheckpoint_Serialize_Call
    \/ LogHeadCheckpoint_SerializeTreeData_Call
    \/ LogHeadCheckpoint_SerializeTreeData_Again
    \/ SegmentData_SerializeSegmentInfo_Call
    \/ AuditProof_Serialize_Call

SpecEnc == InitEnc /\ [][NextEnc]_vars

---------------------------------------------------------------------------
(* Properties *)

\* buf is the encoding of src, as written
Plain == edit = <<"none">>

\* the decoder `name` has returned on a buffer that began as a record of kind k
DoneOn(k, name) == pc = "done" /\ kind = k /\ op = name

\* the n bytes of s read MSB first, as a size_t (n <= 4)
MsbFirst(s) ==
    Word([k \in WordIdx |-> IF k <= Len(s) THEN s[Len(s) + 1 - k] ELSE 0])

\* C8: DeserializeUint of an n-byte string (n in {1,2,4}) is its MSB-first
\* unsigned value, so DeserializeUint(SerializeUint(v, n)) = v.
C8_DeserializeUintIsMsbFirst ==
    (DoneOn("uint", "DeserializeUint") /\ Len(buf) \in {1, 2, 4})
        => /\ ret = MsbFirst(buf)
           /\ (Plain => ret = src)

\* C1: Deserialize(D.Serialize()) succeeds and yields D.
C1_DigitallySignedRoundTrip ==
    (DoneOn("ds", "Deserialize") /\ Plain) => (ret = TRUE /\ obj = src)

\* C2: Deserialize(Serialize(R)) succeeds and restores every field of a
\* LogSegmentCheckpoint and of a LogHeadCheckpoint.
C2_CheckpointRoundTrip ==
    (pc = "done" /\ kind \in {"seg", "head"} /\ Plain)
        => (ret = TRUE /\ obj = src)

\* C3: DeserializeSegmentInfo(SerializeSegmentInfo(R)) on a freshly constructed
\* SegmentData succeeds and yields R in every field, the two roots included.
C3_SegmentDataRoundTrip ==
    [][(pc = "enc" /\ kind = "sd" /\ Plain /\ obj = NewSegmentData /\ pc' = "done")
        => (ret' = TRUE /\ obj' = src)]_vars

\* C4: AuditProof::Deserialize(R.tree_type, R.Serialize()) succeeds and yields R.
C4_AuditProofRoundTrip ==
    (DoneOn("ap", "Deserialize") /\ Plain /\ tt = src.tree_type)
        => (ret = TRUE /\ obj = src)

\* C5: ReadFromString(D.Serialize() followed by S) returns 4 + len(D.signature)
\* and sets the fields to those of D; Deserialize of the same buffer fails
\* whenever S is non-empty.
C5_PrefixParse ==
    /\ (DoneOn("ds", "ReadFromString") /\ edit[1] \in {"none", "suffix"})
            => (ret = ToWord(4 + Len(src.sig_string)) /\ obj = src)
    /\ (DoneOn("ds", "Deserialize") /\ edit[1] = "suffix") => ret = FALSE

\* a decoder of the five record types has returned failure
Failed == pc = "done" /\ op = "Deserialize" /\ ret = FALSE

\* C6 as stated: whenever a decoder returns failure, every field of the target
\* record has the value it had before the call.
C6_FailureLeavesRecordUnchanged ==
    [][Failed' => obj' = obj]_vars

\* the length below which each decoder rejects before reading any field
MinLen(k) ==
    CASE k = "ds" -> 4 [] k = "seg" -> 8 [] k = "head" -> 4 [] k = "sd" -> 12
      [] OTHER -> 4

\* C6, amended: a failing decoder does not undo what it has already stored, but
\* it never touches what lies behind the point of failure: the root of a
\* checkpoint, the roots of a SegmentData and the audit_path of an AuditProof
\* keep their values, and a buffer shorter than the first fixed-width fields
\* changes nothing (only tree_type, for an AuditProof).
C6_FailureLeavesTrailingFields ==
    [][Failed' =>
        /\ kind \in {"seg", "head"} => obj'.root = obj.root
        /\ kind = "sd" => /\ obj'.log_segment.root = obj.log_segment.root
                          /\ obj'.log_head.root = obj.log_head.root
        /\ kind = "ap" => obj'.audit_path = obj.audit_path
        /\ (kind # "ap" /\ Len(buf) < MinLen(kind)) => obj' = obj
        /\ (kind = "ap" /\ Len(buf) < MinLen(kind))
                => obj' = [obj EXCEPT !.tree_type = tt']
      ]_vars

\* a LogSegmentCheckpoint that held a record is left, by a failed decode, with a
\* new sequence_number and its old root
C6_Witness ==
    /\ Failed /\ kind = "seg"
    /\ obj.sequence_number = src.sequence_number
    /\ obj.root = UsedLogSegmentCheckpoint.root
    /\ Len(buf) >= 8

\* C7: after one byte of encode(R) is replaced by a different value, the
\* matching decoder fails or yields a record that differs from R.
C7_TamperRejection ==
    (pc = "done" /\ op = "Deserialize" /\ edit[1] = "tamper"
        /\ (kind = "ap" => tt = src.tree_type))
        => (ret = FALSE \/ obj # src)

\* C9: a buffer whose first byte is in 7..255 or whose second byte is in 4..255
\* is rejected by ReadFromString (0) and by Deserialize (false); the 4-byte
\* encoding of every valid pair of algorithms with an empty signature is
\* accepted and round-trips.
C9_EnumBoundaries ==
    /\ (pc = "done" /\ kind = "ds" /\ Len(buf) >= 2 /\ (buf[1] >= 7 \/ buf[2] >= 4))
            => /\ op = "ReadFromString" => ret = ToWord(0)
               /\ op = "Deserialize" => ret = FALSE
    /\ (pc = "done" /\ kind = "ds" /\ Len(buf) = 1 /\ buf[1] >= 7)
            => /\ op = "ReadFromString" => ret = ToWord(0)
               /\ op = "Deserialize" => ret = FALSE
    /\ (pc = "done" /\ kind = "ds" /\ Plain /\ src.sig_string = <<>>)
            => /\ Len(buf) = 4
               /\ obj = src
               /\ op = "ReadFromString" => ret = ToWord(4)
               /\ op = "Deserialize" => ret = TRUE

\* a full-length buffer is rejected for its hash_algo byte 7 alone
C9_Witness ==
    /\ DoneOn("ds", "ReadFromString")
    /\ Len(buf) = 4 /\ buf[1] = 7 /\ buf[2] <= 3 /\ buf[3] = 0 /\ buf[4] = 0
    /\ ret = ToWord(0)

\* C10 as stated: Deserialize(buf) returns true if and only if
\* ReadFromString(buf) returns exactly len(buf).
C10_DeserializeIffConsumesAll ==
    DoneOn("ds", "Deserialize")
        => (ret = TRUE <=>
                DigitallySigned_ReadFromString(NewDigitallySigned, buf).ret
                    = ToWord(Len(buf)))

\* C10, amended: Deserialize(buf) returns true if and only if buf is not empty
\* and ReadFromString(buf) returns exactly len(buf).
C10_DeserializeIffNonEmptyAndConsumesAll ==
    DoneOn("ds", "Deserialize")
        => (ret = TRUE <=>
                /\ buf # <<>>
                /\ DigitallySigned_ReadFromString(NewDigitallySigned, buf).ret
                       = ToWord(Len(buf)))

\* Deserialize has rejected the empty buffer, on which ReadFromString returns
\* 0 = len(buf)
C10_Witness ==
    DoneOn("ds", "Deserialize") /\ ret = FALSE /\ buf = <<>>

---------------------------------------------------------------------------
(* Encoders *)

\* an encoder has been called once, and has returned or aborted
FirstCall == pc \in {"out", "aborted"} /\ obj = <<>>

\* the DigitallySigned objects the record holds
EmbeddedSigs ==
    CASE kind = "ds" -> {src}
      [] kind = "sd" -> {src.log_segment.signature, src.log_head.signature}
      [] OTHER -> {src.signature}

\* the roots the record holds
Roots ==
    CASE kind \in {"seg", "head"} -> {src.root}
      [] kind = "sd" -> {src.log_segment.root, src.log_head.root}
      [] OTHER -> {}

\* C11 as stated: every Serialize / SerializeTreeData / SerializeSegmentInfo
\* call on a record whose root is not exactly 32 bytes, or whose embedded
\* DigitallySigned has hash_algo > 6 or sig_algo > 3, aborts instead of
\* returning bytes.
C11_EncodersAbortOnInvalidRecord ==
    (/\ FirstCall
     /\ \/ \E r \in Roots : Len(r) # 32
        \/ \E sg \in EmbeddedSigs : sg.hash_algo > 6 \/ sg.sig_algo > 3)
        => pc = "aborted"

\* what the encoder called asks of the record, in the terms of the record
Encodable ==
    LET Fits(sg) == sg.hash_algo < 256 /\ sg.sig_algo < 256
    IN  CASE kind = "ds" -> Fits(src)
          [] kind \in {"seg", "head"} /\ op = "Serialize" ->
                Len(src.root) = 32 /\ Fits(src.signature)
          [] kind \in {"seg", "head"} /\ op = "SerializeTreeData" ->
                Len(src.root) = 32
          [] kind = "sd" ->
                /\ src.log_segment.sequence_number = src.log_head.sequence_number
                /\ \A sg \in EmbeddedSigs : Fits(sg)
          [] kind = "ap" ->
                /\ Fits(src.signature)
                /\ \A i \in 1..Len(src.audit_path) : Len(src.audit_path[i]) = 32

\* C11, amended: in a build with asserts an encoder aborts exactly when the
\* root it writes is not 32 bytes, a path node it writes is not 32 bytes, an
\* algorithm value does not fit one byte, or the two sequence numbers of a
\* SegmentData differ; algorithm values 7..255 and 4..255 are written as they
\* are, SerializeSegmentInfo does not look at the roots, and with NDEBUG no
\* encoder aborts.
C11_EncodersAbortOnFailedAssertOnly ==
    FirstCall =>
        /\ pc = "aborted" <=> (~ndebug /\ ~Encodable)
        /\ (pc = "out" /\ kind = "ds")
               => SubSeq(buf, 1, 2) = <<src.hash_algo % 256, src.sig_algo % 256>>

\* a checkpoint with a 31-byte root and valid algorithms has made Serialize
\* abort
C11_Witness ==
    /\ FirstCall /\ kind = "seg" /\ op = "Serialize"
    /\ Len(src.root) = 31 /\ src.signature = DS(1, 1, <<>>)
    /\ pc = "aborted"

---------------------------------------------------------------------------
(* SegmentData *)

SameSequenceNumber(sd) ==
    sd.log_segment.sequence_number = sd.log_head.sequence_number

\* C12: after every successful DeserializeSegmentInfo the two sequence numbers
\* of the object are equal; and on an object where they were equal before the
\* call they are equal after it, whether the call succeeded or failed.
C12_SequenceNumbersStayPaired ==
    [][(pc = "enc" /\ kind = "sd" /\ pc' = "done")
        => /\ ret' = TRUE => SameSequenceNumber(obj')
           /\ SameSequenceNumber(obj) => SameSequenceNumber(obj')]_vars

\* a failed call has stored the decoded sequence number 5 in both checkpoints
C12_Witness ==
    /\ DoneOn("sd", "Deserialize") /\ ret = FALSE
    /\ obj.log_segment.sequence_number = ToWord(5)
    /\ obj.log_head.sequence_number = ToWord(5)

\* C13: for every valid SegmentData R, DeserializeSegmentInfo fails on
\* SerializeSegmentInfo(R) followed by one extra byte, whatever its value.
C13_ExtraByteRejected ==
    (DoneOn("sd", "Deserialize") /\ edit = <<"suffix", 1>>)
        => ret = FALSE

---------------------------------------------------------------------------
(* AuditProof *)

\* the fixed header fields of an audit proof read as one of tree type tt
HeaderLen == IF tt = LOG_SEGMENT_TREE THEN 12 ELSE 8

\* what the prefix parse of the signature consumes after the header
SigLen ==
    ToInt(DigitallySigned_ReadFromString(NewDigitallySigned,
                                         SubstrFrom(buf, HeaderLen)).ret)

\* the buffer holds a whole header and a signature that parses
WellFormedHead == Len(buf) >= HeaderLen /\ SigLen # 0

\* the bytes that remain after header and signature
Residual == Len(buf) - HeaderLen - SigLen

\* C14: AuditProof::Deserialize fails for every buffer in which the number of
\* bytes remaining after the header fields and the prefix-parsed signature is
\* not divisible by 32, for both tree types; so it fails on an encoding
\* followed by a number of bytes that is not a multiple of 32.
C14_UnalignedPathRejected ==
    DoneOn("ap", "Deserialize") =>
        /\ (WellFormedHead /\ Residual % 32 # 0) => ret = FALSE
        /\ (edit[1] = "suffix" /\ edit[2] % 32 # 0 /\ tt = src.tree_type)
               => ret = FALSE

\* an encoding followed by one byte has been rejected with header and
\* signature parsed
C14_Witness ==
    /\ DoneOn("ap", "Deserialize") /\ edit = <<"suffix", 1>>
    /\ WellFormedHead /\ Residual % 32 = 1
    /\ ret = FALSE

\* C15 as stated: AuditProof::Deserialize succeeds only if the bytes remaining
\* after the signature are a positive multiple of 32; a buffer with zero bytes
\* after the signature is rejected.
C15_PositiveMultipleOf32 ==
    (DoneOn("ap", "Deserialize") /\ ret = TRUE)
        => (WellFormedHead /\ Residual > 0 /\ Residual % 32 = 0)

\* C15, amended: AuditProof::Deserialize succeeds exactly when header and
\* signature parse and the bytes remaining are a multiple of 32, zero included;
\* the path then holds one node per 32 remaining bytes.
C15_MultipleOf32ZeroIncluded ==
    DoneOn("ap", "Deserialize") =>
        /\ ret = TRUE <=> (WellFormedHead /\ Residual % 32 = 0)
        /\ ret = TRUE => Len(obj.audit_path) * 32 = Residual

\* a buffer that ends right after a 3-byte signature has been accepted
C15_Witness ==
    /\ DoneOn("ap", "Deserialize") /\ ret = TRUE
    /\ WellFormedHead /\ Residual = 0 /\ SigLen = 7

\* C16: Deserialize on a well-formed header and signature followed by no
\* further bytes succeeds and leaves audit_path empty, whatever path the
\* object held before.
C16_EmptyPathAccepted ==
    (DoneOn("ap", "Deserialize") /\ WellFormedHead /\ Residual = 0)
        => (ret = TRUE /\ obj.audit_path = <<>>)

\* the 16-byte proof with an empty signature and no path has been decoded
C16_Witness ==
    /\ DoneOn("ap", "Deserialize") /\ Plain /\ tt = LOG_SEGMENT_TREE
    /\ Len(buf) = 16 /\ src.audit_path = <<>>
    /\ ret = TRUE /\ obj.audit_path = <<>>

\* C17: tree_size is on the wire exactly for LOG_SEGMENT_TREE, right after
\* sequence_number, so an encoding is 16 + len(sig) + 32 * |path| bytes long
\* against 12 + len(sig) + 32 * |path| for SEGMENT_INFO_TREE; and a successful
\* decode with SEGMENT_INFO_TREE leaves tree_size = sequence_number + 1 for
\* every sequence number the 4 bytes can hold.
C17_TreeSizeOnWireIffLogSegmentTree ==
    /\ (pc = "enc" /\ kind = "ap" /\ Plain) =>
           LET len == Len(src.signature.sig_string) + 32 * Len(src.audit_path)
           IN  IF src.tree_type = LOG_SEGMENT_TREE
               THEN /\ Len(buf) = 16 + len
                    /\ MsbFirst(SubSeq(buf, 5, 8)) = src.tree_size
                    /\ MsbFirst(SubSeq(buf, 9, 12)) = src.leaf_index
               ELSE /\ Len(buf) = 12 + len
                    /\ MsbFirst(SubSeq(buf, 5, 8)) = src.leaf_index
    /\ (DoneOn("ap", "Deserialize") /\ tt = SEGMENT_INFO_TREE /\ ret = TRUE) =>
           obj.tree_size = AddW(MsbFirst(SubSeq(buf, 1, 4)), ToWord(1))

---------------------------------------------------------------------------
(* Checkpoints *)

\* the encoding of a signature, field by field
SignatureLayout(sg) ==
    <<sg.hash_algo, sg.sig_algo, Len(sg.sig_string) \div 256,
      Len(sg.sig_string) % 256>> \o sg.sig_string

\* buf is sequence_number (4 bytes), segment_size (4 bytes), the
\* DigitallySigned encoding, then a 32-byte root
SegmentCheckpointLayout ==
    LET n == Len(src.signature.sig_string)
    IN  /\ Len(buf) >= 44 + n
        /\ MsbFirst(SubSeq(buf, 1, 4)) = src.sequence_number
        /\ MsbFirst(SubSeq(buf, 5, 8)) = src.segment_size
        /\ SubSeq(buf, 9, 12 + n) = SignatureLayout(src.signature)
        /\ SubSeq(buf, 13 + n, Len(buf)) = src.root
        /\ Len(src.root) = 32

\* C18 as stated: LogSegmentCheckpoint::Serialize emits sequence_number (4
\* bytes), segment_size (4 bytes), the DigitallySigned encoding, then the
\* 32-byte root, and the output is 48 plus the number of signature bytes long.
C18_SegmentCheckpointIs48PlusSig ==
    (pc = "enc" /\ kind = "seg" /\ Plain)
        => /\ SegmentCheckpointLayout
           /\ Len(buf) = 48 + Len(src.signature.sig_string)

\* C18, amended: the same layout, and the output is 44 plus the number of
\* signature bytes long (4 + 4 + 4 + n + 32).
C18_SegmentCheckpointIs44PlusSig ==
    (pc = "enc" /\ kind = "seg" /\ Plain)
        => /\ SegmentCheckpointLayout
           /\ Len(buf) = 44 + Len(src.signature.sig_string)

\* a checkpoint with a 3-byte signature has been serialized to 47 bytes
C18_Witness ==
    /\ pc = "enc" /\ kind = "seg" /\ Plain
    /\ Len(src.signature.sig_string) = 3 /\ Len(buf) = 47

\* the record of the scenario: seq = 7, hash = 1, sig = 1, empty signature,
\* root of 32 zero bytes
Scenario3 ==
    /\ pc = "enc" /\ kind = "head" /\ Plain
    /\ src = [sequence_number |-> ToWord(7), signature |-> DS(1, 1, <<>>),
              root |-> Rep(32, 0)]

\* C19 as stated: that record serializes to 00 00 00 07 01 01 00 00 followed
\* by 32 zero bytes, 44 bytes in total.
C19_Scenario3Is44Bytes ==
    Scenario3 => (buf = <<0, 0, 0, 7, 1, 1, 0, 0>> \o Rep(32, 0) /\ Len(buf) = 44)

\* C19, amended: that record serializes to 00 00 00 07 01 01 00 00 followed by
\* 32 zero bytes, 40 bytes in total.
C19_Scenario3Is40Bytes ==
    Scenario3 => (buf = <<0, 0, 0, 7, 1, 1, 0, 0>> \o Rep(32, 0) /\ Len(buf) = 40)

\* the record of the scenario has been serialized
C19_Witness == Scenario3 /\ Len(buf) = 40 /\ buf[4] = 7

\* the 4 low bytes of a size_t, most significant first
Uint4(w) == <<w[4], w[3], w[2], w[1]>>

\* the tree-type tag followed by the fields of the checkpoint other than its
\* signature
TreeDataLayout(k, R) ==
    IF k = "seg"
    THEN <<LOG_SEGMENT_TREE>> \o Uint4(R.sequence_number)
             \o Uint4(R.segment_size) \o R.root
    ELSE <<SEGMENT_INFO_TREE>> \o Uint4(R.sequence_number) \o R.root

\* two checkpoints agree on every field but the signature
SameTreeFields(k, R1, R2) ==
    /\ R1.sequence_number = R2.sequence_number
    /\ R1.root = R2.root
    /\ k = "seg" => R1.segment_size = R2.segment_size

\* C20: SerializeTreeData is a function of the fields other than the signature
\* and injective on them: two LogSegmentCheckpoints (LogHeadCheckpoints) yield
\* the same tree data if and only if they agree on sequence_number,
\* segment_size (segment only) and root, whatever their signatures; the output
\* is the 1-byte tree-type tag followed by those fields in order.
C20_TreeDataInjectiveOnUnsignedFields ==
    (op = "SerializeTreeData" /\ pc \in {"out", "out2"}) =>
        /\ buf = TreeDataLayout(kind, src)
        /\ pc = "out2" =>
               /\ buf2 = TreeDataLayout(kind, obj)
               /\ buf = buf2 <=> SameTreeFields(kind, src, obj)

\* two segment checkpoints with different signatures have yielded the same
\* tree data
C20_Witness ==
    /\ op = "SerializeTreeData" /\ pc = "out2" /\ kind = "seg"
    /\ src.signature # obj.signature
    /\ Len(src.root) = 32
    /\ buf = buf2

---------------------------------------------------------------------------
(* Canonical encoding *)

\* C23: whenever ReadFromString returns a count n other than 0, 4 <= n <=
\* len(buf), n = 4 + len(sig_string) and sig_string is bytes 4..n-1 of the
\* buffer; whenever it returns 0 the fields of the object are unchanged.
C23_ReadFromStringCount ==
    [][(pc = "enc" /\ kind = "ds" /\ pc' = "done" /\ op' = "ReadFromString")
        => IF ret' # ToWord(0)
           THEN /\ ~LtW(ret', ToWord(4))
                /\ ~LtW(ToWord(Len(buf)), ret')
                /\ ret' = ToWord(4 + Len(obj'.sig_string))
                /\ obj'.sig_string = SubSeq(buf, 5, 4 + Len(obj'.sig_string))
           ELSE obj' = obj]_vars

\* the record a decoder has accepted passes the asserts of its encoder
ReencodeAsserts ==
    CASE kind = "ds" -> DigitallySigned_SerializeAsserts(obj)
      [] kind = "seg" -> LogSegmentCheckpoint_SerializeAsserts(obj)
      [] kind = "head" -> LogHeadCheckpoint_SerializeAsserts(obj)
      [] kind = "ap" -> AuditProof_SerializeAsserts(obj)

\* the bytes its encoder returns for it
Reencoded ==
    CASE kind = "ds" -> DigitallySigned_Serialize(obj)
      [] kind = "seg" -> LogSegmentCheckpoint_Serialize(obj)
      [] kind = "head" -> LogHeadCheckpoint_Serialize(obj)
      [] kind = "ap" -> AuditProof_Serialize(obj)

\* C24: for every byte string b a decoder accepts (DigitallySigned,
\* LogSegmentCheckpoint, LogHeadCheckpoint, AuditProof for the tree type
\* given), encoding the decoded record again trips no assert and returns
\* exactly b.
C24_CanonicalEncoding ==
    (pc = "done" /\ op = "Deserialize" /\ kind \in {"ds", "seg", "head", "ap"}
        /\ ret = TRUE)
        => (ReencodeAsserts /\ Reencoded = buf)

---------------------------------------------------------------------------
(* ConnectionPool *)

\* host:port keys
HostPorts == {"a:80", "b:80"}

\* Connection objects constructed in a run, numbered in order of construction
MaxConnections == 3
ConnIds == 1..MaxConnections

\* values of the flag --url_fetcher_max_conn_per_host_port
MaxConnPerHostPortFlags == {0, 2}

\* s without the elements outside keep
RECURSIVE Restrict(_, _)
Restrict(s, keep) ==
    IF s = <<>> THEN <<>>
    ELSE IF Head(s) \in keep THEN <<Head(s)>> \o Restrict(Tail(s), keep)
    ELSE Restrict(Tail(s), keep)

Elems(s) == {s[i] : i \in 1..Len(s)}

\* The sweep of Get over the deque d from position i. erase() invalidates
\* deque_it, which the loop then increments: where the erase moved the
\* elements in front the loop goes on at the element that followed, where it
\* moved the elements behind the loop skips that element, and past the last
\* element the iterator never meets end(). Yields every outcome:
\* [ub |-> the loop left the deque, d |-> the deque afterwards].
RECURSIVE SweepFrom(_, _)
SweepFrom(d, i) ==
    IF i > Len(d) THEN {[ub |-> FALSE, d |-> d]}
    ELSE IF connection[d[i]] THEN SweepFrom(d, i + 1)
    ELSE LET e == SubSeq(d, 1, i - 1) \o SubSeq(d, i + 1, Len(d))
         IN  SweepFrom(e, i)
                 \cup (IF i > Len(e) THEN {[ub |-> TRUE, d |-> e]}
                       ELSE SweepFrom(e, i + 1))

\* ConnectionPool::Get for the key k; last_call'.ret is the Connection
\* returned (0 when the process ended instead)
ConnectionPool_Get(k) ==
    \E o \in SweepFrom(conns_[k], 1) :
        /\ conns_' = [conns_ EXCEPT ![k] =
               IF o.ub \/ o.d = <<>> THEN o.d ELSE SubSeq(o.d, 1, Len(o.d) - 1)]
        /\ put_order' = [put_order EXCEPT ![k] = Restrict(@, Elems(conns_'[k]))]
        /\ IF o.ub
           THEN /\ halted' = "undefined behaviour in the sweep"
                /\ last_call' = [op |-> "Get", key |-> k, ret |-> 0]
                /\ UNCHANGED <<connection, other_end, created>>
           ELSE IF o.d = <<>>
           THEN /\ created < MaxConnections
                /\ created' = created + 1
                /\ connection' = [connection EXCEPT ![created + 1] = TRUE]
                /\ other_end' = [other_end EXCEPT ![created + 1] = k]
                /\ last_call' = [op |-> "Get", key |-> k, ret |-> created + 1]
                /\ UNCHANGED halted
           ELSE LET retval == o.d[Len(o.d)]
                IN  /\ IF connection[retval]
                       THEN /\ last_call' = [op |-> "Get", key |-> k,
                                             ret |-> retval]
                            /\ UNCHANGED halted
                       ELSE /\ halted' = "CHECK_NOTNULL(retval->connection())"
                            /\ last_call' = [op |-> "Get", key |-> k, ret |-> 0]
                    /\ UNCHANGED <<connection, other_end, created>>
        /\ UNCHANGED <<FLAGS_url_fetcher_max_conn_per_host_port,
                       cleanup_scheduled_>>

\* ConnectionPool::Put of the pointer c (0 is null); last_call'.ret tells
\* whether the pool took the Connection
ConnectionPool_Put(c) ==
    IF c = 0 \/ ~connection[c]
    THEN /\ last_call' = [op |-> "Put", key |-> c,
                          ret |-> IF c = 0 THEN "null" ELSE "dead"]
         /\ UNCHANGED <<FLAGS_url_fetcher_max_conn_per_host_port, conns_,
                        cleanup_scheduled_, closures_, connection, other_end,
                        created, halted, put_order>>
    ELSE LET key == other_end[c]
             entry == Append(conns_[key], c)
         IN  /\ conns_' = [conns_ EXCEPT ![key] = entry]
             /\ put_order' = [put_order EXCEPT ![key] = Append(@, c)]
             /\ last_call' = [op |-> "Put", key |-> c, ret |-> "pooled"]
             /\ IF ~cleanup_scheduled_
                    /\ Len(entry) > FLAGS_url_fetcher_max_conn_per_host_port
                THEN /\ cleanup_scheduled_' = TRUE
                     /\ closures_' = Append(closures_, <<"Cleanup">>)
                ELSE UNCHANGED <<cleanup_scheduled_, closures_>>
             /\ UNCHANGED <<FLAGS_url_fetcher_max_conn_per_host_port,
                            connection, other_end, created, halted>>

PopBackTo(d, n) == IF Len(d) > n THEN SubSeq(d, 1, n) ELSE d

PopFrontOnce(d, n) == IF Len(d) > n THEN Tail(d) ELSE d

\* the deque d after pop_front() while it is longer than n
PopFrontTo(d, n) == IF Len(d) > n THEN SubSeq(d, Len(d) - n + 1, Len(d)) ELSE d

\* ConnectionPool::Cleanup, run by the event loop as the first closure queued
ConnectionPool_Cleanup ==
    /\ closures_ # <<>> /\ Head(closures_) = <<"Cleanup">>
    /\ closures_' = Tail(closures_)
    /\ cleanup_scheduled_' = FALSE
    /\ conns_' = [k \in HostPorts |->
           PopFrontTo(conns_[k], FLAGS_url_fetcher_max_conn_per_host_port)]
    /\ put_order' = [k \in HostPorts |-> Restrict(put_order[k], Elems(conns_'[k]))]
    /\ last_call' = [op |-> "Cleanup", key |-> 0, ret |-> 0]
    /\ UNCHANGED <<FLAGS_url_fetcher_max_conn_per_host_port, connection,
                   other_end, created, halted>>

\* the pointers held in the deques of the keys ks, as one sequence
RECURSIVE Pointers(_)
Pointers(ks) ==
    IF ks = {} THEN <<>>
    ELSE LET k == CHOOSE x \in ks : TRUE IN conns_[k] \o Pointers(ks \ {k})

\* ConnectionClosedHook: the connection of the Connection c is finished (the
\* peer closed it, or it failed)
ConnectionClosedHook(c) ==
    /\ c \in Elems(Pointers(HostPorts))
            \cup {caller_conn[t] : t \in DOMAIN caller_conn}
            \cup {states[r].conn_ : r \in DOMAIN states}
    /\ connection[c]
    /\ connection' = [connection EXCEPT ![c] = FALSE]
    /\ last_call' = [op |-> "ConnectionClosedHook", key |-> c, ret |-> 0]
    /\ UNCHANGED <<FLAGS_url_fetcher_max_conn_per_host_port, conns_,
                   cleanup_scheduled_, closures_, other_end, created, halted,
                   put_order>>

---------------------------------------------------------------------------
(* The pool used by several threads *)

\* threads that call Get and Put, each holding at most one Connection
MaxThreads == 3
Threads == 1..MaxThreads

\* no record is encoded or decoded
NoCodec ==
    /\ char_signed = FALSE
    /\ ndebug = FALSE
    /\ pc = "idle"
    /\ kind = "none"
    /\ src = <<>>
    /\ buf = <<>>
    /\ buf2 = <<>>
    /\ edit = <<"none">>
    /\ obj = <<>>
    /\ op = "none"
    /\ tt = LOG_SEGMENT_TREE
    /\ ret = FALSE

\* a pool newly constructed, under either value of the flag
NewConnectionPool ==
    /\ FLAGS_url_fetcher_max_conn_per_host_port \in MaxConnPerHostPortFlags
    /\ conns_ = [k \in HostPorts |-> <<>>]
    /\ cleanup_scheduled_ = FALSE
    /\ closures_ = <<>>
    /\ connection = [c \in ConnIds |-> FALSE]
    /\ other_end = [c \in ConnIds |-> "a:80"]
    /\ created = 0
    /\ halted = "no"
    /\ last_call = [op |-> "none", key |-> 0, ret |-> 0]
    /\ put_order = [k \in HostPorts |-> <<>>]

InitPool ==
    /\ NoCodec
    /\ NewConnectionPool
    /\ caller_conn = [t \in Threads |-> 0]
    /\ states = <<>>
    /\ gcm = <<>>
    /\ base = <<>>
    /\ metrics = <<>>

\* a thread gets a Connection for the key k
Thread_Get(t, k) ==
    /\ halted = "no"
    /\ caller_conn[t] = 0
    /\ ConnectionPool_Get(k)
    /\ caller_conn' = [caller_conn EXCEPT ![t] = last_call'.ret]
    /\ UNCHANGED <<codecvars, closures_, states, gcm, base, metrics>>

Thread_PutKeepsPointer(t) ==
    /\ halted = "no"
    /\ ConnectionPool_Put(caller_conn[t])
    /\ UNCHANGED caller_conn
    /\ UNCHANGED <<codecvars, states, gcm, base, metrics>>

\* a thread gives its pointer, null or not, to Put; the pointer is moved from
\* only where Put takes it
Thread_Put(t) ==
    /\ halted = "no"
    /\ ConnectionPool_Put(caller_conn[t])
    /\ caller_conn' = IF last_call'.ret = "pooled"
                      THEN [caller_conn EXCEPT ![t] = 0] ELSE caller_conn
    /\ UNCHANGED <<codecvars, states, gcm, base, metrics>>

\* a thread destroys the Connection that Put left with it
Thread_Reset(t) ==
    /\ halted = "no"
    /\ caller_conn[t] # 0
    /\ ~connection[caller_conn[t]]
    /\ caller_conn' = [caller_conn EXCEPT ![t] = 0]
    /\ last_call' = [op |-> "reset", key |-> caller_conn[t], ret |-> 0]
    /\ UNCHANGED <<codecvars, states, gcm, base, metrics,
                   FLAGS_url_fetcher_max_conn_per_host_port, conns_,
                   cleanup_scheduled_, closures_, connection, other_end,
                   created, halted, put_order>>

\* the libevent dispatch thread is between two callbacks: no State is inside
\* MakeRequest
EventThreadIdle == \A r \in DOMAIN states : states[r].phase # "requesting"

\* the event loop runs the closure queued by Put
Base_RunClosures_Cleanup ==
    /\ halted = "no"
    /\ EventThreadIdle
    /\ ConnectionPool_Cleanup
    /\ UNCHANGED <<codecvars, caller_conn, states, gcm, base, metrics>>

\* the event loop learns that a connection is finished
Connection_Closed(c) ==
    /\ halted = "no"
    /\ EventThreadIdle
    /\ ConnectionClosedHook(c)
    /\ UNCHANGED <<codecvars, caller_conn, states, gcm, base, metrics>>

NextPool ==
    \/ \E t \in Threads, k \in HostPorts : Thread_Get(t, k)
    \/ \E t \in Threads : Thread_Put(t)
    \/ \E t \in Threads : Thread_Reset(t)
    \/ Base_RunClosures_Cleanup
    \/ \E c \in ConnIds : Connection_Closed(c)

SpecPool == InitPool /\ [][NextPool]_vars

---------------------------------------------------------------------------
(* Properties of the connection pool *)

Idle(k) == Len(conns_[k])

\* C21 as stated: in every reachable state the pool holds at most
\* url_fetcher_max_conn_per_host_port idle connections for every host:port.
C21_BoundedInEveryState ==
    \A k \in DOMAIN conns_ : Idle(k) <= FLAGS_url_fetcher_max_conn_per_host_port

\* C21: the pool holds at most url_fetcher_max_conn_per_host_port idle
\* connections for every host:port in every state in which no Cleanup is
\* scheduled; Put appends first and leaves the trimming to the Cleanup it
\* schedules.
C21_BoundedUnlessCleanupScheduled ==
    cleanup_scheduled_ \/ C21_BoundedInEveryState

\* a Cleanup has trimmed a queue of three down to the maximum of two
C21_Witness ==
    /\ last_call.op = "Cleanup"
    /\ FLAGS_url_fetcher_max_conn_per_host_port = 2
    /\ \E k \in DOMAIN conns_ : Idle(k) = 2 /\ Len(put_order[k]) = 2
    /\ created = 3
    /\ \A t \in DOMAIN caller_conn : caller_conn[t] = 0
    /\ \A c \in ConnIds : connection[c]

\* C25: a Get that finds idle connections for its key, dead ones among them,
\* ends neither in the CHECK_NOTNULL nor outside the deque, returns a live
\* connection and leaves no dead connection in the deque of its key.
C25_GetNeverReturnsDead ==
    last_call.op = "Get"
        => /\ halted = "no"
           /\ connection[last_call.ret]
           /\ \A c \in Elems(conns_[last_call.key]) : connection[c]

\* the Cleanup closures pending on the event loop
PendingCleanups == {i \in 1..Len(closures_) : closures_[i] = <<"Cleanup">>}

\* wherever a queue exceeds the maximum a Cleanup is scheduled, and a
\* scheduled Cleanup is pending exactly once
CleanupPendingOnOverflow ==
    /\ \A k \in DOMAIN conns_ :
           Idle(k) > FLAGS_url_fetcher_max_conn_per_host_port
               => cleanup_scheduled_
    /\ Cardinality(PendingCleanups) = IF cleanup_scheduled_ THEN 1 ELSE 0

\* the last n elements of s, all of s where it is shorter
LastN(s, n) == IF Len(s) > n THEN SubSeq(s, Len(s) - n + 1, Len(s)) ELSE s

\* a run of Cleanup clears the flag and keeps, for every key, the connections
\* returned last, up to the maximum
CleanupKeepsNewest ==
    last_call'.op = "Cleanup"
        => /\ ~cleanup_scheduled_'
           /\ \A k \in DOMAIN conns_ :
                  conns_'[k] = LastN(put_order[k],
                                     FLAGS_url_fetcher_max_conn_per_host_port)

\* this step is a Get that handed out an idle connection
GetHandsOutCached ==
    /\ last_call'.op = "Get"
    /\ last_call'.ret \in Elems(conns_[last_call'.key])

Owners(c) ==
    UNION {{<<"pool", k, i>> : i \in {j \in 1..Len(conns_[k]) : conns_[k][j] = c}}
               : k \in DOMAIN conns_}
        \cup {<<"caller", t, 0>> : t \in {x \in DOMAIN caller_conn :
                                              caller_conn[x] = c}}

\* C27: under every interleaving of Get and Put by several threads no
\* Connection is held in two places at once, be it two callers, a caller and
\* the pool, or two positions of the pool; and a Put of a null pointer or of
\* a dead connection leaves the pool as it was.
C27_ExclusiveOwnership ==
    [][/\ \A c \in ConnIds : Cardinality(Owners(c))' <= 1
       /\ (/\ last_call'.op = "Put"
           /\ (last_call'.key = 0 \/ ~connection[last_call'.key]))
              => UNCHANGED <<conns_, cleanup_scheduled_, closures_>>]_vars

\* a thread has just offered a dead connection to Put while another thread
\* holds a connection and a third connection is idle
C27_Witness ==
    /\ last_call.op = "Put"
    /\ last_call.key # 0
    /\ ~connection[last_call.key]
    /\ \E t \in DOMAIN caller_conn : caller_conn[t] = last_call.key
    /\ \E t \in DOMAIN caller_conn :
           caller_conn[t] # 0 /\ connection[caller_conn[t]]
    /\ \E k \in DOMAIN conns_ : Idle(k) > 0

---------------------------------------------------------------------------
(* UrlFetcher *)

\* calls of Fetch in a run
MaxRequests == 2

\* protocols of the URLs fetched
Protocols == {"http", "https"}

\* the variables of the pool that a call which does not reach the pool
\* leaves alone
poolvars ==
    <<FLAGS_url_fetcher_max_conn_per_host_port, conns_, cleanup_scheduled_,
      connection, other_end, created, put_order>>

InitFetch ==
    /\ NoCodec
    /\ NewConnectionPool
    /\ caller_conn = <<>>
    /\ states = <<>>
    /\ gcm = <<>>
    /\ base = <<>>
    /\ metrics = <<>>

\* UrlFetcher::Fetch with State::State: a State is constructed, the task
\* returned at once where the protocol is not http, and MakeRequest queued
\* on the event loop in either case
UrlFetcher_Fetch(protocol, k, body) ==
    /\ halted = "no"
    /\ Len(states) < MaxRequests
    /\ states' = Append(states,
           [protocol |-> protocol, key |-> k, body |-> body,
            phase |-> "queued", conn_ |-> 0,
            returned |-> IF protocol # "http"
                         THEN <<"INVALID_ARGUMENT">> ELSE <<>>,
            deleted |-> FALSE])
    /\ closures_' = Append(closures_, <<"MakeRequest", Len(states) + 1>>)
    /\ last_call' = [op |-> "Fetch", key |-> Len(states) + 1, ret |-> 0]
    /\ UNCHANGED <<codecvars, poolvars, halted, caller_conn, gcm, base, metrics>>

\* State::MakeRequest up to conn_ = pool_->Get(request_.url), run by the
\* event loop as the first closure queued. On a State already deleted the
\* call either faults or finds the members as they were.
State_MakeRequest(r) ==
    /\ halted = "no"
    /\ EventThreadIdle
    /\ closures_ # <<>> /\ Head(closures_) = <<"MakeRequest", r>>
    /\ closures_' = Tail(closures_)
    /\ \/ /\ states[r].deleted
          /\ halted' = "use of a deleted State"
          /\ last_call' = [op |-> "MakeRequest", key |-> r, ret |-> 0]
          /\ UNCHANGED <<poolvars, states>>
       \/ /\ states[r].protocol # "http"
          /\ halted' = "CHECK_EQ(url.Protocol(), http)"
          /\ last_call' = [op |-> "Get", key |-> states[r].key, ret |-> 0]
          /\ UNCHANGED <<poolvars, states>>
       \/ /\ states[r].protocol = "http"
          /\ ConnectionPool_Get(states[r].key)
          /\ states' = [states EXCEPT
                 ![r].conn_ = last_call'.ret,
                 ![r].phase = IF halted' = "no" THEN "requesting" ELSE @]
    /\ UNCHANGED <<codecvars, caller_conn, gcm, base, metrics>>

\* State::MakeRequest from evhtp_make_request on: the request is refused,
\* or made and its body refused, or made
State_MakeRequest_Send(r) ==
    /\ halted = "no"
    /\ r \in DOMAIN states
    /\ states[r].phase = "requesting"
    /\ \/ /\ ConnectionPool_Put(states[r].conn_)
          /\ states' = [states EXCEPT
                 ![r].conn_ = IF last_call'.ret = "pooled" THEN 0 ELSE @,
                 ![r].returned = Append(@, "INTERNAL"),
                 ![r].phase = "finished"]
       \/ /\ states[r].body
          /\ states' = [states EXCEPT
                 ![r].returned = Append(@, "INTERNAL"),
                 ![r].phase = "issued"]
          /\ last_call' = [op |-> "MakeRequest", key |-> r, ret |-> "body"]
          /\ UNCHANGED <<poolvars, closures_, halted>>
       \/ /\ states' = [states EXCEPT ![r].phase = "issued"]
          /\ last_call' = [op |-> "MakeRequest", key |-> r, ret |-> "made"]
          /\ UNCHANGED <<poolvars, closures_, halted>>
    /\ UNCHANGED <<codecvars, caller_conn, gcm, base, metrics>>

\* the statuses RequestDone returns: for a null request, for a status code
\* under 100, for a response
RequestDoneStatuses == {"UNKNOWN", "FAILED_PRECONDITION", "OK"}

\* State::RequestDone, called by libevhtp through RequestCallback
State_RequestDone(r, status) ==
    /\ halted = "no"
    /\ EventThreadIdle
    /\ r \in DOMAIN states
    /\ states[r].phase = "issued"
    /\ IF states[r].conn_ = 0
       THEN /\ halted' = "CHECK(conn_)"
            /\ last_call' = [op |-> "RequestDone", key |-> r, ret |-> 0]
            /\ UNCHANGED <<poolvars, closures_, states>>
       ELSE /\ ConnectionPool_Put(states[r].conn_)
            /\ states' = [states EXCEPT
                   ![r].conn_ = IF last_call'.ret = "pooled" THEN 0 ELSE @,
                   ![r].returned = Append(@, status),
                   ![r].phase = "finished"]
    /\ UNCHANGED <<codecvars, caller_conn, gcm, base, metrics>>

\* State::~State, run for task->DeleteWhenDone(state) at some moment after
\* the task was returned
State_Delete(r) ==
    /\ halted = "no"
    /\ r \in DOMAIN states
    /\ ~states[r].deleted
    /\ states[r].returned # <<>>
    /\ states[r].phase # "requesting"
    /\ states' = [states EXCEPT ![r].deleted = TRUE]
    /\ halted' = IF states[r].conn_ # 0 THEN "CHECK(!conn_)" ELSE "no"
    /\ last_call' = [op |-> "~State", key |-> r, ret |-> 0]
    /\ UNCHANGED <<codecvars, poolvars, closures_, caller_conn, gcm, base, metrics>>

NextFetch ==
    \/ \E p \in Protocols, k \in HostPorts, b \in BOOLEAN :
           UrlFetcher_Fetch(p, k, b)
    \/ \E r \in 1..MaxRequests : State_MakeRequest(r)
    \/ \E r \in 1..MaxRequests : State_MakeRequest_Send(r)
    \/ \E r \in 1..MaxRequests, s \in RequestDoneStatuses :
           State_RequestDone(r, s)
    \/ \E r \in 1..MaxRequests : State_Delete(r)
    \/ Base_RunClosures_Cleanup
    \/ \E c \in ConnIds : Connection_Closed(c)

SpecFetch == InitFetch /\ [][NextFetch]_vars

---------------------------------------------------------------------------
(* Properties of UrlFetcher *)

\* C28: the task of every Fetch is returned exactly once: never twice, and
\* once by the time the last callback of the request has run.
C28_TaskReturnedExactlyOnce ==
    \A r \in DOMAIN states :
        /\ Len(states[r].returned) <= 1
        /\ states[r].phase = "finished" => Len(states[r].returned) = 1

\* C29: wherever the task of a request has been returned the State holds no
\* connection, so that no State is destroyed with one: CHECK(!conn_) does
\* not fail.
C29_NoConnectionPastCompletion ==
    /\ halted # "CHECK(!conn_)"
    /\ \A r \in DOMAIN states :
           states[r].returned # <<>> => states[r].conn_ = 0

\* C30: a Fetch of a URL whose protocol is not http returns
\* INVALID_ARGUMENT and does nothing more: Get is not called for it, so that
\* its CHECK_EQ on the protocol is not reached.
C30_UnsupportedProtocolStopsThere ==
    /\ halted # "CHECK_EQ(url.Protocol(), http)"
    /\ \A r \in DOMAIN states :
           states[r].protocol # "http"
               => /\ states[r].returned = <<"INVALID_ARGUMENT">>
                  /\ states[r].conn_ = 0

---------------------------------------------------------------------------
(* GCMExporter *)

\* pushes in a run
MaxPushes == 4

\* values of --google_compute_monitoring_push_interval_seconds, and the
\* seconds a wait or a fetch may take beyond it
PushIntervals == {5, 100}
Delays == {0, 100}

\* the age in seconds beyond which the token is refreshed: minutes(3)
TokenMaxAge == 3 * 60

\* access tokens the metadata server issues, as strings of characters
AccessTokens == {<<"t", "o", "k", "e", "n">>, <<"t", "2">>}

\* replies of the metadata server: status of the task, HTTP status, and the
\* body as the members of the JSON object it holds, <<>> where it is no
\* JSON object
MetadataReplies ==
    {[status |-> "OK", status_code |-> 200,
      body |-> <<<<"access_token", t>>, <<"token_type", <<"B">>>>>>]
        : t \in AccessTokens}
    \cup {[status |-> "OK", status_code |-> 200,
           body |-> <<<<"token_type", <<"B">>>>, <<"access_token", t>>>>]
              : t \in AccessTokens}
    \cup {[status |-> "OK", status_code |-> 200,
           body |-> <<<<"token_type", <<"B">>>>>>],
          [status |-> "OK", status_code |-> 200, body |-> <<>>],
          [status |-> "OK", status_code |-> 500, body |-> <<>>],
          [status |-> "UNKNOWN", status_code |-> 0, body |-> <<>>]}

\* the value of the member name of the JSON object body, <<>> where it has
\* none
RECURSIVE JsonString(_, _)
JsonString(body, name) ==
    IF body = <<>> THEN <<>>
    ELSE IF Head(body)[1] = name THEN Head(body)[2]
    ELSE JsonString(Tail(body), name)

\* the CHECKs of RefreshCredentials on a reply
RefreshChecks(reply) ==
    /\ reply.status = "OK"
    /\ reply.status_code = 200
    /\ reply.body # <<>>
    /\ JsonString(reply.body, "access_token") # <<>>

RefreshCredentialsKeepsToken(g, reply) ==
    [g EXCEPT !.token_refreshed_at_ = g.now]

\* GCMExporter::RefreshCredentials on a reply that passes its CHECKs
RefreshCredentials(g, reply) ==
    [g EXCEPT !.token_refreshed_at_ = g.now,
              !.bearer_token_ = JsonString(reply.body, "access_token")]

Bearer == <<"B", "e", "a", "r", "e", "r", " ">>

InitGcm ==
    /\ NoCodec
    /\ NoTransport
    /\ gcm = [phase |-> "none", interval |-> 0, now |-> 0,
              token_refreshed_at_ |-> 0, bearer_token_ |-> <<>>,
              issued |-> <<>>, pushes |-> 0, push |-> <<>>]
    /\ base = <<>>
    /\ metrics = <<>>

\* GCMExporter::GCMExporter: the credentials are fetched, then the push
\* thread is started
GCMExporter_GCMExporter(interval, reply) ==
    /\ halted = "no"
    /\ gcm.phase = "none"
    /\ IF RefreshChecks(reply)
       THEN /\ gcm' = [RefreshCredentials([gcm EXCEPT !.interval = interval],
                                          reply)
                          EXCEPT !.phase = "pushing",
                                 !.issued = JsonString(reply.body,
                                                       "access_token")]
            /\ UNCHANGED halted
       ELSE /\ halted' = "CHECK in RefreshCredentials"
            /\ UNCHANGED gcm
    /\ UNCHANGED <<codecvars, FLAGS_url_fetcher_max_conn_per_host_port, conns_,
                   cleanup_scheduled_, closures_, connection, other_end,
                   caller_conn, created, last_call, put_order, states,
                   base, metrics>>

\* one turn of the loop of GCMExporter::PushMetrics that does not find
\* exiting_ set: the wait, the refresh of a token older than three minutes,
\* the push and its CHECKs
GCMExporter_PushMetrics(delay, reply, status_code) ==
    /\ halted = "no"
    /\ gcm.phase = "pushing"
    /\ gcm.pushes < MaxPushes
    /\ LET woken == [gcm EXCEPT !.now = @ + gcm.interval + delay]
           stale == woken.now - woken.token_refreshed_at_ > TokenMaxAge
       IN  IF stale /\ ~RefreshChecks(reply)
           THEN /\ halted' = "CHECK in RefreshCredentials"
                /\ gcm' = woken
           ELSE LET g == IF stale THEN RefreshCredentials(woken, reply)
                         ELSE woken
                IN  /\ gcm' = [g EXCEPT
                           !.issued = IF stale
                                      THEN JsonString(reply.body,
                                                      "access_token")
                                      ELSE @,
                           !.pushes = @ + 1,
                           !.push = [verb |-> "POST",
                                     url |-> "push_url",
                                     Authorization |->
                                         Bearer \o g.bearer_token_]]
                    /\ halted' = IF status_code = 200 THEN "no"
                                 ELSE "CHECK_EQ(200, resp.status_code)"
    /\ UNCHANGED <<codecvars, FLAGS_url_fetcher_max_conn_per_host_port, conns_,
                   cleanup_scheduled_, closures_, connection, other_end,
                   caller_conn, created, last_call, put_order, states,
                   base, metrics>>

\* GCMExporter::~GCMExporter: exiting_ is set and the push thread, woken,
\* returns
GCMExporter_Destroy ==
    /\ halted = "no"
    /\ gcm.phase = "pushing"
    /\ gcm' = [gcm EXCEPT !.phase = "exited"]
    /\ UNCHANGED <<codecvars, netvars, base, metrics>>

NextGcm ==
    \/ \E i \in PushIntervals, reply \in MetadataReplies :
           GCMExporter_GCMExporter(i, reply)
    \/ \E d \in Delays, reply \in MetadataReplies, c \in {200, 500} :
           GCMExporter_PushMetrics(d, reply, c)
    \/ GCMExporter_Destroy

SpecGcm == InitGcm /\ [][NextGcm]_vars

\* C22: no push is made before the constructor has stored a token; once it
\* has returned, bearer_token_ is the access_token of the reply of the
\* metadata server to the refresh completed last, and the push made last is
\* a POST to the push URL whose Authorization header is "Bearer " followed
\* by that token.
C22_CredentialsBeforePush ==
    /\ gcm.phase = "none" => gcm.pushes = 0 /\ gcm.push = <<>>
    /\ gcm.phase # "none"
           => /\ gcm.bearer_token_ = gcm.issued
              /\ gcm.issued \in AccessTokens
              /\ gcm.pushes > 0
                     => gcm.push = [verb |-> "POST", url |-> "push_url",
                                    Authorization |-> Bearer \o gcm.issued]

\* a push made after a refresh in the push thread that brought a token
\* other than the one the constructor got
C22_Witness ==
    /\ gcm.phase = "pushing"
    /\ gcm.pushes >= 2
    /\ gcm.token_refreshed_at_ > 0
    /\ gcm.issued = <<"t", "2">>
    /\ gcm.push # <<>>
    /\ gcm.push.Authorization = <<"B", "e", "a", "r", "e", "r", " ", "t", "2">>

---------------------------------------------------------------------------
(* Base::HttpsConnectionNew *)

\* entries of the addrinfo chain getaddrinfo yields, and turns of the loop
\* followed over it
MaxAddrs == 3
MaxTurns == 4

\* ai_family of an entry; AF_PACKET stands for every family that is neither
\* AF_INET nor AF_INET6
AddressFamilies == {"AF_INET", "AF_INET6", "AF_PACKET"}

InitResolve ==
    /\ NoCodec
    /\ NoTransport
    /\ gcm = <<>>
    /\ metrics = <<>>
    /\ base = [pc |-> "idle", info |-> <<>>, res |-> 0, addr_str |-> <<>>,
               turns |-> 0, ret |-> "none"]

\* Base::HttpsConnectionNew up to the loop: getaddrinfo fails, or yields a
\* chain of one entry or more
Base_HttpsConnectionNew(resolved, chain) ==
    /\ base.pc = "idle"
    /\ base' = IF resolved # 0
               THEN [base EXCEPT !.pc = "returned", !.ret = "nullptr"]
               ELSE [base EXCEPT !.pc = "while", !.info = chain, !.res = 1]
    /\ UNCHANGED <<codecvars, netvars, gcm, metrics>>

\* one test of while (res) and the turn of the loop or the rest of the
\* function that follows it; res = Len(info) + 1 is the null pointer that
\* ends the chain
Base_HttpsConnectionNew_While ==
    /\ base.pc = "while"
    /\ base.turns < MaxTurns
    /\ base' =
           IF base.res > Len(base.info)
           THEN [base EXCEPT !.pc = "returned",
                             !.ret = <<"evhtp_connection_ssl_new",
                                       base.addr_str>>]
           ELSE IF base.info[base.res] \in {"AF_INET", "AF_INET6"}
           THEN [base EXCEPT !.addr_str = <<base.info[base.res], base.res>>,
                             !.res = @ + 1,
                             !.turns = @ + 1]
           ELSE [base EXCEPT !.turns = @ + 1]
    /\ UNCHANGED <<codecvars, netvars, gcm, metrics>>

NextResolve ==
    \/ \E resolved \in {0, 1}, n \in 1..MaxAddrs :
           \E chain \in [1..n -> AddressFamilies] :
               Base_HttpsConnectionNew(resolved, chain)
    \/ Base_HttpsConnectionNew_While

SpecResolve == InitResolve /\ [][NextResolve]_vars

\* C36: the loop of HttpsConnectionNew over the addrinfo chain moves to
\* ai_next in every turn, whatever the family of the entry, and so takes no
\* more turns than the chain has entries.
C36_LoopAdvancesAndEnds ==
    base.pc \in {"while", "returned"} /\ base.info # <<>>
        => /\ base.turns = base.res - 1
           /\ base.turns <= Len(base.info)

---------------------------------------------------------------------------
(* Base::Add and Base::RunClosures *)

\* closures added in a run, numbered in the order of their push_back
MaxClosures == 7

InitBase ==
    /\ NoCodec
    /\ NoTransport
    /\ gcm = <<>>
    /\ metrics = <<>>
    /\ base = [wake_closures_ |-> FALSE, closures |-> <<>>, running |-> FALSE,
               ran |-> <<>>, added |-> 0,
               delayed |-> FALSE, delay |-> 0, timer |-> "none", freed |-> FALSE,
               task |-> [state |-> "ACTIVE", status |-> "none",
                         calls |-> <<>>, cancelled |-> FALSE,
                         cancelling |-> FALSE]]

Base_AddNoWake(b, cs) ==
    [b |-> [b EXCEPT !.added = @ + 1], closures_ |-> Append(cs, b.added + 1)]

\* Base::Add on the Base b with the queue cs: the closure is pushed under
\* closures_lock_ and wake_closures_ made active
Base_Add(b, cs) ==
    [b |-> [b EXCEPT !.added = @ + 1, !.wake_closures_ = TRUE],
     closures_ |-> Append(cs, b.added + 1)]

\* a thread other than the dispatching one calls Add
Thread_Add ==
    /\ base.added < MaxClosures
    /\ base' = Base_Add(base, closures_).b
    /\ closures_' = Base_Add(base, closures_).closures_
    /\ UNCHANGED <<codecvars, FLAGS_url_fetcher_max_conn_per_host_port, conns_,
                   cleanup_scheduled_, connection, other_end, caller_conn,
                   created, halted, last_call, put_order, states, gcm, metrics>>

\* the event loop finds wake_closures_ active and calls Base::RunClosures,
\* which swaps the queue into its local vector
Base_RunClosures ==
    /\ base.wake_closures_
    /\ ~base.running
    /\ base' = [base EXCEPT !.wake_closures_ = FALSE, !.running = TRUE,
                            !.closures = closures_]
    /\ closures_' = <<>>
    /\ UNCHANGED <<codecvars, FLAGS_url_fetcher_max_conn_per_host_port, conns_,
                   cleanup_scheduled_, connection, other_end, caller_conn,
                   created, halted, last_call, put_order, states, gcm, metrics>>

\* Base::RunClosures calls the next closure of its vector, which may itself
\* call Add, or returns at the end of the vector
Base_RunClosures_Call(adds) ==
    /\ base.running
    /\ IF base.closures = <<>>
       THEN /\ ~adds
            /\ base' = [base EXCEPT !.running = FALSE]
            /\ UNCHANGED closures_
       ELSE LET called == [base EXCEPT
                               !.closures = Tail(@),
                               !.ran = Append(@, <<Head(base.closures),
                                                   "dispatch">>)]
            IN  IF adds
                THEN /\ base.added < MaxClosures
                     /\ base' = Base_Add(called, closures_).b
                     /\ closures_' = Base_Add(called, closures_).closures_
                ELSE /\ base' = called
                     /\ UNCHANGED closures_
    /\ UNCHANGED <<codecvars, FLAGS_url_fetcher_max_conn_per_host_port, conns_,
                   cleanup_scheduled_, connection, other_end, caller_conn,
                   created, halted, last_call, put_order, states, gcm, metrics>>

\* util::Task::Return on the task of b: the call completes the task where
\* it is the first one, and is without effect otherwise
Task_Return(b, status) ==
    [b EXCEPT !.task.calls = Append(@, status),
              !.task.state = IF @ = "ACTIVE" THEN "PREPARED" ELSE @,
              !.task.status = IF b.task.state = "ACTIVE" THEN status ELSE @]

\* delays handed to Base::Delay, in seconds
DelaySeconds == {0 - 1, 0, 1}

Base_DelayAlwaysArmed(delay) ==
    /\ ~base.delayed
    /\ base' = [base EXCEPT !.delayed = TRUE, !.delay = delay,
                            !.timer = "pending",
                            !.task.cancelling = base.task.cancelled]
    /\ UNCHANGED <<codecvars, netvars, gcm, metrics>>

\* Base::Delay: the task is returned at once for a delay of zero or less;
\* otherwise the timer is made, DelayCancel registered for the cancellation
\* (and due at once where the task is cancelled already), event_free
\* registered for the end of the task, and the timer armed
Base_Delay(delay) ==
    /\ ~base.delayed
    /\ base' = IF delay <= 0
               THEN Task_Return([base EXCEPT !.delayed = TRUE, !.delay = delay], "OK")
               ELSE [base EXCEPT !.delayed = TRUE, !.delay = delay,
                                 !.timer = "pending",
                                 !.task.cancelling = base.task.cancelled]
    /\ UNCHANGED <<codecvars, netvars, gcm, metrics>>

\* the timer fires and the event loop calls DelayDispatch
DelayDispatch ==
    /\ base.timer = "pending"
    /\ base' = Task_Return([base EXCEPT !.timer = "fired"], "OK")
    /\ UNCHANGED <<codecvars, netvars, gcm, metrics>>

\* util::Task::Cancel by the owner of a task that is not returned yet: the
\* cancellation callbacks registered are due
Task_Cancel ==
    /\ base.task.state = "ACTIVE"
    /\ ~base.task.cancelled
    /\ base' = [base EXCEPT !.task.cancelled = TRUE,
                            !.task.cancelling = base.timer # "none"]
    /\ UNCHANGED <<codecvars, netvars, gcm, metrics>>

\* DelayCancel, called for the cancellation: event_del, then Return
DelayCancel ==
    /\ base.task.cancelling
    /\ base' = Task_Return([base EXCEPT
                                !.timer = IF @ = "pending" THEN "deleted"
                                          ELSE @,
                                !.task.cancelling = FALSE],
                           "CANCELLED")
    /\ UNCHANGED <<codecvars, netvars, gcm, metrics>>

\* the task, returned and with its cancellation callbacks run, is done, and
\* the cleanup registered with CleanupWhenDone runs: event_free(timer),
\* which also deletes a timer still pending
Task_Done ==
    /\ base.task.state = "PREPARED"
    /\ ~base.task.cancelling
    /\ base' = [base EXCEPT !.task.state = "DONE",
                            !.timer = IF @ = "pending" THEN "deleted" ELSE @,
                            !.freed = base.timer # "none"]
    /\ UNCHANGED <<codecvars, netvars, gcm, metrics>>

NextBase ==
    \/ Thread_Add
    \/ Base_RunClosures
    \/ \E adds \in BOOLEAN : Base_RunClosures_Call(adds)
    \/ \E delay \in DelaySeconds : Base_Delay(delay)
    \/ DelayDispatch
    \/ Task_Cancel
    \/ DelayCancel
    \/ Task_Done

SpecBase == InitBase /\ [][NextBase]_vars

\* the event loop dispatches an active event, and a callback that was
\* called goes on
SpecBaseLive ==
    /\ SpecBase
    /\ WF_vars(Base_RunClosures)
    /\ WF_vars(\E adds \in BOOLEAN : Base_RunClosures_Call(adds))

\* the closures run so far, in the order they ran
Ran == [i \in 1..Len(base.ran) |-> base.ran[i][1]]

\* every closure that ran ran on the dispatching thread, the closures ran in
\* the order they were added, each once, and the closures added and not yet
\* run wait in the vector of the running batch or in the queue, the queue
\* with wake_closures_ active
RunInOrderNoneLost ==
    /\ \A i \in 1..Len(base.ran) : base.ran[i] = <<i, "dispatch">>
    /\ Ran \o base.closures \o closures_ = [i \in 1..base.added |-> i]
    /\ closures_ # <<>> => base.wake_closures_
    /\ base.closures # <<>> => base.running

\* C31: every closure given to Add, by any thread, a running closure
\* included, is run exactly once, on the dispatching thread, in the order
\* of the Adds; a closure added while a batch runs is run in a later batch.
C31_ClosuresRunOnceInOrder ==
    /\ []RunInOrderNoneLost
    /\ \A c \in 1..MaxClosures :
           (base.added >= c) ~> (Len(base.ran) >= c)

\* two batches have run, the second holding a closure that a closure of the
\* first added, and a closure added meanwhile by another thread waits
C31_Witness ==
    /\ Len(base.ran) = 3
    /\ base.added = 4
    /\ closures_ = <<4>>
    /\ ~base.running
    /\ base.wake_closures_

\* what holds of the task of a Delay in every state: a delay of zero or
\* less has returned it with OK in the call itself and made no timer; a
\* longer one leaves it unreturned until the timer fires or DelayCancel
\* runs, returned with OK only after the timer fired and with CANCELLED
\* only by DelayCancel ahead of DelayDispatch; each of the two calls Return
\* once at most; and the timer is freed in no state but those where the
\* task is done
DelayedTask ==
    LET task == base.task
        Count(s) == Cardinality({i \in 1..Len(task.calls) : task.calls[i] = s})
    IN  /\ base.delayed /\ base.delay <= 0
               => /\ task.calls = <<"OK">>
                  /\ task.status = "OK"
                  /\ base.timer = "none"
        /\ base.delayed /\ base.delay > 0
               => /\ task.status = "none" => task.calls = <<>>
                  /\ task.status = "OK"
                         => base.timer = "fired" /\ Head(task.calls) = "OK"
                  /\ task.status = "CANCELLED"
                         => task.cancelled /\ Head(task.calls) = "CANCELLED"
        /\ ~base.delayed => task.calls = <<>>
        /\ Count("OK") <= 1 /\ Count("CANCELLED") <= 1
        /\ task.state = "ACTIVE" <=> task.status = "none"
        /\ base.freed => task.state = "DONE"

---------------------------------------------------------------------------
(* GCMExporter: the push thread and the destructor *)

\* the exporter is constructed and its push thread enters PushMetrics
InitGcmExit ==
    /\ NoCodec
    /\ NoTransport
    /\ base = <<>>
    /\ metrics = <<>>
    /\ gcm = [exiting_ |-> FALSE, push_thread_ |-> "wait_for",
              notified |-> FALSE, destructor |-> "none", iterations |-> 0]

PushMetrics_WaitForNoPredicate ==
    /\ halted = "no"
    /\ gcm.push_thread_ = "wait_for"
    /\ gcm' = [gcm EXCEPT !.push_thread_ = "waiting"]
    /\ UNCHANGED <<codecvars, netvars, base, metrics>>

\* PushMetrics enters exit_cv_.wait_for under mutex_: with exiting_ set the
\* wait is over at once and the thread returns, otherwise it waits
PushMetrics_WaitFor ==
    /\ halted = "no"
    /\ gcm.push_thread_ = "wait_for"
    /\ gcm' = [gcm EXCEPT !.push_thread_ = IF gcm.exiting_ THEN "returned"
                                           ELSE "waiting"]
    /\ UNCHANGED <<codecvars, netvars, base, metrics>>

\* the wait ends, by the interval elapsing or by notify_all: the thread
\* returns where exiting_ is set; otherwise, the interval over, it starts a
\* turn: refreshes a stale token (a fetch) or goes on to the push (a fetch)
PushMetrics_Wake(cause, stale) ==
    /\ halted = "no"
    /\ gcm.push_thread_ = "waiting"
    /\ cause = "notify_all" => gcm.notified
    /\ IF gcm.exiting_
       THEN gcm' = [gcm EXCEPT !.push_thread_ = "returned",
                               !.notified = FALSE]
       ELSE /\ cause = "interval"
            /\ gcm.iterations < MaxPushes
            /\ gcm' = [gcm EXCEPT !.push_thread_ = IF stale THEN "refreshing"
                                                   ELSE "pushing",
                                  !.iterations = @ + 1]
    /\ UNCHANGED <<codecvars, netvars, base, metrics>>

\* what a fetch completes with: the HTTP status, or the status of a task
\* that failed
FetchResults == {"200", "500", "UNKNOWN"}

\* the fetch in flight completes: a refresh is followed by the push, a push
\* by the next turn of the loop, and a failed one by the CHECK
PushMetrics_Fetched(result) ==
    /\ gcm.push_thread_ \in {"refreshing", "pushing"}
    /\ halted = "no"
    /\ IF result = "200"
       THEN /\ gcm' = [gcm EXCEPT !.push_thread_ =
                           IF @ = "refreshing" THEN "pushing" ELSE "wait_for"]
            /\ UNCHANGED halted
       ELSE /\ halted' = IF result = "UNKNOWN"
                          THEN "CHECK_EQ(util::Status::OK, task.status())"
                          ELSE "CHECK_EQ(200, resp.status_code)"
            /\ UNCHANGED gcm
    /\ UNCHANGED <<codecvars, FLAGS_url_fetcher_max_conn_per_host_port, conns_,
                   cleanup_scheduled_, closures_, connection, other_end,
                   caller_conn, created, last_call, put_order, states,
                   base, metrics>>

\* GCMExporter::~GCMExporter, a step at a time: exiting_ set under mutex_,
\* notify_all, and join, which returns once the push thread has
GCMExporter_Destructor ==
    /\ halted = "no"
    /\ \/ /\ gcm.destructor = "none"
          /\ gcm' = [gcm EXCEPT !.exiting_ = TRUE, !.destructor = "notify_all"]
       \/ /\ gcm.destructor = "notify_all"
          /\ gcm' = [gcm EXCEPT !.notified = gcm.push_thread_ = "waiting",
                                !.destructor = "join"]
       \/ /\ gcm.destructor = "join"
          /\ gcm.push_thread_ = "returned"
          /\ gcm' = [gcm EXCEPT !.destructor = "joined"]
    /\ UNCHANGED <<codecvars, netvars, base, metrics>>

NextGcmExit ==
    \/ PushMetrics_WaitFor
    \/ \E cause \in {"interval", "notify_all"}, stale \in BOOLEAN :
           PushMetrics_Wake(cause, stale)
    \/ \E result \in FetchResults : PushMetrics_Fetched(result)
    \/ GCMExporter_Destructor

\* the threads go on, a thread notified wakes, and a fetch in flight
\* completes; the interval is under no obligation to elapse
SpecGcmExit ==
    /\ InitGcmExit
    /\ [][NextGcmExit]_vars
    /\ WF_vars(PushMetrics_WaitFor)
    /\ WF_vars(\E stale \in BOOLEAN : PushMetrics_Wake("notify_all", stale))
    /\ WF_vars(\E result \in FetchResults : PushMetrics_Fetched(result))
    /\ WF_vars(GCMExporter_Destructor)

---------------------------------------------------------------------------
(* Registry, GCMCounter and GCMGauge *)

\* threads that call the metrics, and calls made by each
MaxCallers == 2
MaxCalls == 2

\* the mutexes: Registry::mutex_, GCMCounter::mutex_, the mutex_ of the
\* GCMGauge the counter owns, and the mutex_ of a GCMGauge of its own
Mutexes == {"registry", "counter", "counter.gauge_", "gauge"}

\* Export and ExportText of the metric m, as the steps they take
ExportOf(m) ==
    IF m = "counter"
    THEN <<<<"lock", "counter">>, <<"lock", "counter.gauge_">>,
           <<"export", "counter.gauge_">>,
           <<"unlock", "counter.gauge_">>, <<"unlock", "counter">>>>
    ELSE <<<<"lock", "gauge">>, <<"export", "gauge">>, <<"unlock", "gauge">>>>

ProgramIncrementUnlocked(call) ==
    CASE call = "IncrementBy" ->
             <<
               <<"lock", "counter.gauge_">>, <<"find", "counter.gauge_">>,
               <<"unlock", "counter.gauge_">>,
               <<"lock", "counter.gauge_">>, <<"store", "counter.gauge_", "sum">>,
               <<"unlock", "counter.gauge_">>>>
      [] call = "Counter_Get" ->
             <<<<"lock", "counter">>, <<"lock", "counter.gauge_">>,
               <<"find", "counter.gauge_">>, <<"unlock", "counter.gauge_">>,
               <<"unlock", "counter">>, <<"return">>>>
      [] call = "Counter_Export" -> ExportOf("counter")
      [] call = "Gauge_Export" -> ExportOf("gauge")
      [] call = "Gauge_Get" ->
             <<<<"lock", "gauge">>, <<"find", "gauge">>, <<"unlock", "gauge">>,
               <<"return">>>>
      [] call = "Gauge_Set" ->
             <<<<"lock", "gauge">>, <<"store", "gauge", "value">>,
               <<"unlock", "gauge">>>>
      [] call \in {"Registry_Export", "Registry_ExportHTML"} ->
             <<<<"lock", "registry">>, <<"for">>, <<"unlock", "registry">>>>
      [] call = "Registry_AddMetric" ->
             <<<<"lock", "registry">>, <<"insert">>, <<"unlock", "registry">>>>
      [] call = "Registry_GetMetrics" ->
             <<<<"lock", "registry">>, <<"copy">>, <<"unlock", "registry">>>>

ProgramGetGaugeFirst(call) ==
    CASE call = "IncrementBy" ->
             <<<<"lock", "counter">>,
               <<"lock", "counter.gauge_">>, <<"find", "counter.gauge_">>,
               <<"unlock", "counter.gauge_">>,
               <<"lock", "counter.gauge_">>, <<"store", "counter.gauge_", "sum">>,
               <<"unlock", "counter.gauge_">>,
               <<"unlock", "counter">>>>
      [] call = "Counter_Get" ->
             <<<<"lock", "counter.gauge_">>, <<"lock", "counter">>,
               <<"find", "counter.gauge_">>, <<"unlock", "counter.gauge_">>,
               <<"unlock", "counter">>, <<"return">>>>
      [] call = "Counter_Export" -> ExportOf("counter")
      [] call = "Gauge_Export" -> ExportOf("gauge")
      [] call = "Gauge_Get" ->
             <<<<"lock", "gauge">>, <<"find", "gauge">>, <<"unlock", "gauge">>,
               <<"return">>>>
      [] call = "Gauge_Set" ->
             <<<<"lock", "gauge">>, <<"store", "gauge", "value">>,
               <<"unlock", "gauge">>>>
      [] call \in {"Registry_Export", "Registry_ExportHTML"} ->
             <<<<"lock", "registry">>, <<"for">>, <<"unlock", "registry">>>>
      [] call = "Registry_AddMetric" ->
             <<<<"lock", "registry">>, <<"insert">>, <<"unlock", "registry">>>>
      [] call = "Registry_GetMetrics" ->
             <<<<"lock", "registry">>, <<"copy">>, <<"unlock", "registry">>>>

\* the steps of each operation: lock_guard and unique_lock as lock and
\* unlock, gauge_->Get as lock, find, unlock, gauge_->Set as lock, store,
\* unlock, the loop of Registry::Export and Registry::ExportHTML as for
Program(call) ==
    CASE call = "IncrementBy" ->
             <<<<"lock", "counter">>,
               <<"lock", "counter.gauge_">>, <<"find", "counter.gauge_">>,
               <<"unlock", "counter.gauge_">>,
               <<"lock", "counter.gauge_">>, <<"store", "counter.gauge_", "sum">>,
               <<"unlock", "counter.gauge_">>,
               <<"unlock", "counter">>>>
      [] call = "Counter_Get" ->
             <<<<"lock", "counter">>, <<"lock", "counter.gauge_">>,
               <<"find", "counter.gauge_">>, <<"unlock", "counter.gauge_">>,
               <<"unlock", "counter">>, <<"return">>>>
      [] call = "Counter_Export" -> ExportOf("counter")
      [] call = "Gauge_Export" -> ExportOf("gauge")
      [] call = "Gauge_Get" ->
             <<<<"lock", "gauge">>, <<"find", "gauge">>, <<"unlock", "gauge">>,
               <<"return">>>>
      [] call = "Gauge_Set" ->
             <<<<"lock", "gauge">>, <<"store", "gauge", "value">>,
               <<"unlock", "gauge">>>>
      [] call \in {"Registry_Export", "Registry_ExportHTML"} ->
             <<<<"lock", "registry">>, <<"for">>, <<"unlock", "registry">>>>
      [] call = "Registry_AddMetric" ->
             <<<<"lock", "registry">>, <<"insert">>, <<"unlock", "registry">>>>
      [] call = "Registry_GetMetrics" ->
             <<<<"lock", "registry">>, <<"copy">>, <<"unlock", "registry">>>>

Operations ==
    {"IncrementBy", "Counter_Get", "Counter_Export", "Gauge_Export",
     "Gauge_Get", "Gauge_Set", "Registry_Export", "Registry_ExportHTML",
     "Registry_AddMetric",
     "Registry_GetMetrics"}

InitMetrics ==
    /\ NoCodec
    /\ NoTransport
    /\ gcm = <<>>
    /\ base = <<>>
    /\ metrics = [mutex |-> [m \in Mutexes |-> 0],
                  values_ |-> [g \in {"counter.gauge_", "gauge"} |-> <<>>],
                  metrics_ |-> <<"counter">>,
                  thread |-> [t \in 1..MaxCallers |->
                                  [op |-> "none", todo |-> <<>>, amount |-> 0,
                                   found |-> 0, calls |-> 0]],
                  called |-> 0, applied |-> <<>>]

\* a thread calls an operation; Increment is IncrementBy with amount 1
Thread_Call(t, call, amount) ==
    /\ metrics.thread[t].op = "none"
    /\ metrics.thread[t].calls < MaxCalls
    /\ metrics' = [metrics EXCEPT
           !.thread[t] = [op |-> call, todo |-> Program(call), amount |-> amount,
                          found |-> 0, calls |-> @.calls + 1],
           !.called = IF call = "IncrementBy" THEN @ + amount ELSE @]
    /\ UNCHANGED <<codecvars, netvars, gcm, base>>

\* the value of the one label tuple in the map values_ of a gauge: 0 where
\* find meets end()
Found(values) == IF values = <<>> THEN 0 ELSE values[1]

\* a thread takes the next step of its operation; a lock waits for the
\* mutex to be free
Thread_Step(t) ==
    LET th == metrics.thread[t]
        step == Head(th.todo)
        rest == Tail(th.todo)
        next == [th EXCEPT !.todo = rest,
                           !.op = IF rest = <<>> THEN "none" ELSE @]
    IN  /\ th.op # "none"
        /\ step[1] = "lock" => metrics.mutex[step[2]] = 0
        /\ metrics' =
               CASE step[1] = "lock" ->
                        [metrics EXCEPT !.thread[t] = next,
                                        !.mutex[step[2]] = t]
                 [] step[1] = "unlock" ->
                        [metrics EXCEPT !.thread[t] = next,
                                        !.mutex[step[2]] = 0]
                 [] step[1] \in {"find", "export"} ->
                        [metrics EXCEPT
                             !.thread[t] =
                                 [next EXCEPT !.found =
                                      Found(metrics.values_[step[2]])]]
                 [] step[1] = "store" ->
                        [metrics EXCEPT
                             !.thread[t] = next,
                             !.values_[step[2]] =
                                 <<IF step[3] = "sum"
                                   THEN th.found + th.amount
                                   ELSE th.amount>>,
                             !.applied = IF step[3] = "sum"
                                         THEN Append(@, th.amount) ELSE @]
                 [] step[1] = "for" ->
                        [metrics EXCEPT
                             !.thread[t] =
                                 [th EXCEPT !.todo =
                                      (IF Len(metrics.metrics_) = 2
                                       THEN ExportOf(metrics.metrics_[1])
                                                \o ExportOf(metrics.metrics_[2])
                                       ELSE ExportOf(metrics.metrics_[1]))
                                          \o rest]]
                 [] step[1] = "insert" ->
                        [metrics EXCEPT
                             !.thread[t] = next,
                             !.metrics_ = <<"counter", "gauge">>]
                 [] OTHER -> [metrics EXCEPT !.thread[t] = next]
        /\ UNCHANGED <<codecvars, netvars, gcm, base>>

NextMetrics ==
    \/ \E t \in 1..MaxCallers, call \in Operations, amount \in {1, 2} :
           Thread_Call(t, call, amount)
    \/ \E t \in 1..MaxCallers : Thread_Step(t)

SpecMetrics == InitMetrics /\ [][NextMetrics]_vars

\* the sum of the amounts at the positions ps of a sequence of amounts
RECURSIVE SumAt(_, _)
SumAt(amounts, ps) ==
    IF ps = {} THEN 0
    ELSE LET p == CHOOSE q \in ps : TRUE
         IN  amounts[p] + SumAt(amounts, ps \ {p})

SubsetSums(amounts) ==
    {SumAt(amounts, ps) : ps \in SUBSET (1..Len(amounts))}

Incrementing == {t \in 1..MaxCallers : metrics.thread[t].op = "IncrementBy"}

\* a thread that has read the counter's value in Get or Export
Observers ==
    {t \in 1..MaxCallers :
         /\ metrics.thread[t].op \in
                {"Counter_Get", "Counter_Export", "Registry_Export",
                 "Registry_ExportHTML"}
         /\ metrics.thread[t].todo # <<>>
         /\ Head(metrics.thread[t].todo) = <<"unlock", "counter.gauge_">>}

\* C34: the counter's value is at every moment the sum of the amounts of the
\* increments applied so far, so that no update is lost; with no increment
\* in progress it is 0 plus the sum of the amounts of all the increments
\* called; and what a concurrent Get or Export reads is the sum of a subset
\* of the increments applied
C34_IncrementsAreAtomic ==
    /\ Found(metrics.values_["counter.gauge_"])
           = SumAt(metrics.applied, 1..Len(metrics.applied))
    /\ Incrementing = {} =>
           Found(metrics.values_["counter.gauge_"]) = metrics.called
    /\ \A t \in Observers :
           metrics.thread[t].found \in SubsetSums(metrics.applied)

\* a Get waits for the counter's mutex while an increment that has read the
\* sum of two earlier increments holds it
C34_Witness ==
    /\ metrics # <<>>
    /\ \E t, u \in 1..MaxCallers :
           /\ metrics.thread[t].op = "IncrementBy"
           /\ metrics.mutex["counter"] = t
           /\ Len(metrics.applied) = 2
           /\ metrics.thread[t].found = 3
           /\ Head(metrics.thread[t].todo) = <<"unlock", "counter.gauge_">>
           /\ metrics.thread[u].op = "IncrementBy"
           /\ Head(metrics.thread[u].todo) = <<"lock", "counter">>

Rank(m) ==
    CASE m = "registry" -> 1
      [] m = "counter" -> 2
      [] OTHER -> 3

Held(t) == {m \in Mutexes : metrics.mutex[m] = t}

Active == {t \in 1..MaxCallers : metrics.thread[t].op # "none"}

Blocked ==
    {t \in Active :
         /\ Head(metrics.thread[t].todo)[1] = "lock"
         /\ metrics.mutex[Head(metrics.thread[t].todo)[2]] # 0}

\* C35: a thread that goes for a mutex holds only mutexes that come before
\* it in the order registry, counter, gauge, and in no state is every thread
\* that is inside an operation waiting for a mutex
C35_LockOrderNoDeadlock ==
    /\ \A t \in Active :
           Head(metrics.thread[t].todo)[1] = "lock" =>
               \A h \in Held(t) :
                   Rank(h) < Rank(Head(metrics.thread[t].todo)[2])
    /\ Active # {} => Blocked # Active

\* Registry::Export holds the registry's mutex and waits for the counter's,
\* which an increment holds together with the gauge's
C35_Witness ==
    /\ metrics # <<>>
    /\ \E t, u \in 1..MaxCallers :
           /\ metrics.thread[t].op = "Registry_Export"
           /\ Held(t) = {"registry"}
           /\ t \in Blocked
           /\ metrics.thread[u].op = "IncrementBy"
           /\ Held(u) = {"counter", "counter.gauge_"}

=============================================================================
